---- MODULE Spec2Model ----
(***************************************************************************)
(* Model of the Telegram photo-editor bot: the three menu routers of the   *)
(* repository (SimpleTelegramBot in bot_simple.py, the webhook server in   *)
(* webhook_server.py, TelegramBot in deepseek_python_20251015_f33cc7.py),  *)
(* the session store they keep, the upload directory, and the image        *)
(* processors they call (AIImageProcessor in ai_apis.py, ImageProcessor in *)
(* deepseek_python_20251015_fc208f.py).                                    *)
(*                                                                         *)
(* One update is handled per step.  The handler's calls to the transport,  *)
(* to the image processor and to the remote providers are recorded, in     *)
(* order, in `trace`; `last` records the update and the session store and  *)
(* upload directory as they were when the handler started.  NextUpdate is  *)
(* the dispatcher taking the next update: it starts a new record.          *)
(*                                                                         *)
(* Every call that can fail (a Bot API request, a provider request, a      *)
(* Pillow operation) has both outcomes: a handler is the set of the runs   *)
(* it can make.  Every upload carries a file_id (or gets a uuid) not seen  *)
(* before, numbered by next_id.                                            *)
(*                                                                         *)
(* The display-only statistics counters (bot_status["users"],              *)
(* bot_status["messages_processed"], bot_stats) are not part of the state: *)
(* no handler branches on them.  Files under processed/ are not tracked:   *)
(* `files` is the content of uploads/.                                     *)
(*                                                                         *)
(* The arithmetic of the image operations (the size resize computes, the   *)
(* box crop cuts, the mode and format convert writes) and the choice of    *)
(* the photo variant are checked on their own, under OpsSpec: `input` is   *)
(* the image or the photo message a function is applied to and `result`    *)
(* what it computed.  Under Spec both stay empty.                          *)
(*                                                                         *)
(* The names of the files the processors write under processed/ are        *)
(* followed under OutputSpec: `processed` lists the writes in order, `now` *)
(* is the clock in seconds.                                                *)
(*                                                                         *)
(* `shown` is a history variable of MenuSpec: the inline keyboard of the   *)
(* menu message each user has on screen.  No router reads it.              *)
(*                                                                         *)
(* The life of the bot inside the application is followed under AppSpec:   *)
(* the token of the environment, bot_status["running"], the global         *)
(* telegram_bot, the SimpleTelegramBot instances, the threads that run     *)
(* start_bot, the polling loops, the updates Telegram holds and the        *)
(* handlers in flight.                                                     *)
(***************************************************************************)
EXTENDS Integers, Sequences, FiniteSets, TLC

VARIABLES bot, api_keys, user_photos, files, next_id, last, trace,
          input, result, processed, now, shown,
          env_token, delivery, bot_status, telegram_bot, instances, starts,
          loops, arrived, confirmed, handling, log

\* The variables of the routers, of the image functions and of processed/.
router_vars == <<bot, api_keys, user_photos, files, next_id, last, trace>>
ops_vars == <<input, result>>
out_vars == <<processed, now>>

\* The variables of the application around the bot (app.py, the polling
\* loop of bot_simple.py, the requests of webhook_server.py).
app_vars ==
    <<env_token, delivery, bot_status, telegram_bot, instances, starts, loops,
      arrived, confirmed, handling, log>>

vars == <<router_vars, ops_vars, out_vars, shown, app_vars>>

(***************************************************************************)
(* Bounds.                                                                 *)
(***************************************************************************)
NumUsers == 2
MaxUploads == 2

Users == 1..NumUsers

Bots == {"bot_simple", "webhook_server", "TelegramBot"}

\* The session store has no entry for the user.
NoPhoto == <<>>
NoPath == <<>>
NoKb == <<>>
NoArg == <<>>

\* No function of OpsSpec is being applied, none has been applied.
NoInput == [kind |-> "none"]
NoResult == [op |-> "none"]

(***************************************************************************)
(* Action tokens and keyboards.                                            *)
(***************************************************************************)
MainKb ==
    << <<"resize", "crop">>,
       <<"remove_bg", "generate_bg">>,
       <<"enhance", "convert">> >>

ResizeKb(back) ==
    << <<"resize_8k", "resize_4k">>,
       <<"resize_1080p", "resize_720p">>,
       <<"resize_mobile", back>> >>

CropKb(back) ==
    << <<"crop_smart", "crop_square">>,
       <<"crop_portrait", "crop_landscape">>,
       <<back>> >>

ConvertKb(back) ==
    << <<"convert_jpeg", "convert_png">>,
       <<"convert_webp", back>> >>

EnhanceKb ==
    << <<"enhance_8k", "enhance_4k">>,
       <<"enhance_1080p", "enhance_720p">>,
       <<"enhance_original", "back">> >>

\* The callback_data values a keyboard offers.
Buttons(kb) == UNION { { kb[i][j] : j \in DOMAIN kb[i] } : i \in DOMAIN kb }

ResizeTokens ==
    {"resize_8k", "resize_4k", "resize_1080p", "resize_720p", "resize_mobile",
     "resize_custom"}
CropTokens == {"crop_smart", "crop_square", "crop_portrait", "crop_landscape"}
ConvertTokens == {"convert_jpeg", "convert_png", "convert_webp", "convert_gif"}
EnhanceTokens ==
    {"enhance_8k", "enhance_4k", "enhance_1080p", "enhance_720p",
     "enhance_original"}

\* callback_data is an opaque string chosen by the client: every token of
\* every keyboard, the back token of either polling bot, and two strings no
\* keyboard offers.
Tokens ==
    Buttons(MainKb) \cup ResizeTokens \cup CropTokens \cup ConvertTokens
        \cup EnhanceTokens \cup {"back", "back_main"}

\* action.startswith(prefix)
StartsWith(action, prefix) ==
    CASE prefix = "resize_" -> action \in ResizeTokens
      [] prefix = "crop_" -> action \in CropTokens
      [] prefix = "convert_" -> action \in ConvertTokens
      [] prefix = "enhance_" -> action \in EnhanceTokens
      [] OTHER -> FALSE

\* action.replace(prefix, "")
StripPrefix(action) ==
    CASE action = "crop_smart" -> "smart"
      [] action = "crop_square" -> "square"
      [] action = "crop_portrait" -> "portrait"
      [] action = "crop_landscape" -> "landscape"
      [] action = "convert_jpeg" -> "jpeg"
      [] action = "convert_png" -> "png"
      [] action = "convert_webp" -> "webp"
      [] action = "convert_gif" -> "gif"
      [] OTHER -> action

size_map ==
    [resize_8k |-> <<7680, 4320>>,
     resize_4k |-> <<3840, 2160>>,
     resize_1080p |-> <<1920, 1080>>,
     resize_720p |-> <<1280, 720>>,
     resize_mobile |-> <<720, 1280>>]

webhook_size_map ==
    [resize_8k |-> <<7680, 4320>>,
     resize_4k |-> <<3840, 2160>>,
     resize_1080p |-> <<1920, 1080>>,
     resize_720p |-> <<1280, 720>>]

format_map ==
    [convert_jpeg |-> "JPEG", convert_png |-> "PNG", convert_webp |-> "WebP"]

resolution_map ==
    [enhance_8k |-> "8k", enhance_4k |-> "4k", enhance_1080p |-> "1080p",
     enhance_720p |-> "720p", enhance_original |-> "original"]

supported_formats == {"jpeg", "jpg", "png", "webp"}

(***************************************************************************)
(* Events of a handler run.                                                *)
(*   kind: the transport method ("sendMessage", "editMessageText",         *)
(*         "sendPhoto", "sendDocument", "answerCallbackQuery", "getFile",  *)
(*         "download"), "op" (a call of an image-processor method by the   *)
(*         router), "remote" (an HTTP request to a provider) or "local"    *)
(*         (a local fallback of the processor);                            *)
(*   text: the message text (without emoji and interpolated values), the   *)
(*         processor method or the provider;  kb: the inline keyboard;     *)
(*   path: the file;  arg: the operation's parameter or the HTTP status;   *)
(*   ok:   the call returned normally (a transport call: was delivered).   *)
(***************************************************************************)
Ev(kind, text, kb, path, arg, ok) ==
    [kind |-> kind, text |-> text, kb |-> kb, path |-> path, arg |-> arg,
     ok |-> ok]

TransportKinds ==
    {"sendMessage", "editMessageText", "sendPhoto", "sendDocument",
     "answerCallbackQuery", "getFile", "download"}

IsTransport(e) == e.kind \in TransportKinds

Ok(tr) == tr[Len(tr)].ok

\* Each run of T makes a transport call, which is delivered or fails.
Try(T, kind, text, kb, path) ==
    { Append(t, Ev(kind, text, kb, path, NoArg, ok)) : t \in T, ok \in BOOLEAN }

\* The runs whose last call returned, and those where it raised.
Passed(T) == { t \in T : Ok(t) }
Raised(T) == { t \in T : ~Ok(t) }

\* The result of a processor method: the events it caused, whether it
\* returned (ok) or raised, and the path it returned.
Res(ev, ok, out) == [ev |-> ev, ok |-> ok, out |-> out]

\* The router's call of a processor method, followed by what the method did.
OpCall(name, path, arg, R) ==
    { Res(<<Ev("op", name, NoKb, path, arg, r.ok)>> \o r.ev, r.ok, r.out) :
        r \in R }

\* A status code a provider can answer with, or no answer.
RemoteOutcomes == {"200", "204", "500", "timeout"}

\* _generate_filename(prefix, extension), joined to processed_dir
AIImageProcessor_generate_filename(prefix, extension) ==
    <<"processed", prefix, extension>>

\* _get_output_path(input_path, suffix, extension)
ImageProcessor_get_output_path(input_path, suffix, extension) ==
    <<"processed", input_path, suffix, extension>>

(***************************************************************************)
(* AIImageProcessor (ai_apis.py): the processor of bot_simple (app.py) and *)
(* of the webhook server.                                                  *)
(***************************************************************************)
\* A Pillow operation on the file: Image.open raises on a missing file, and
\* the library can fail on one that exists.
AIImageProcessor_local(input_path, prefix, extension) ==
    { Res(<<>>, ok,
          IF ok THEN AIImageProcessor_generate_filename(prefix, extension)
          ELSE NoPath) :
        ok \in IF input_path \in files THEN BOOLEAN ELSE {FALSE} }

AIImageProcessor_resize_image(input_path, width, height) ==
    AIImageProcessor_local(input_path, "resized", "jpg")

AIImageProcessor_smart_crop(input_path, crop_type) ==
    AIImageProcessor_local(input_path, "cropped", "jpg")

AIImageProcessor_enhance_quality_ai(input_path, target_resolution) ==
    AIImageProcessor_local(input_path, "ai_enhanced", "jpg")

AIImageProcessor_convert_format(input_path, target_format) ==
    CASE target_format \in {"JPEG", "jpeg", "jpg"} ->
            AIImageProcessor_local(input_path, "converted", "jpg")
      [] target_format \in {"PNG", "png"} ->
            AIImageProcessor_local(input_path, "converted", "png")
      [] target_format \in {"WebP", "webp"} ->
            AIImageProcessor_local(input_path, "converted", "webp")
      [] OTHER -> {Res(<<>>, FALSE, NoPath)}

AIImageProcessor_remove_background_local(input_path) ==
    { Res(<<Ev("local", "remove_background_local", NoKb, input_path, NoArg,
               ok)>>,
          ok,
          IF ok
          THEN AIImageProcessor_generate_filename("bg_removed_local", "png")
          ELSE NoPath) :
        ok \in IF input_path \in files THEN BOOLEAN ELSE {FALSE} }

\* The request to api.remove.bg with its answer.
removebg_request(input_path, status) ==
    Ev("remote", "api.remove.bg", NoKb, input_path, <<status>>, status = "200")

\* A fallback called inside the try block: when it raises, the except branch
\* calls it once more.
Retried(ev, L) ==
    UNION { IF l1.ok
            THEN { Res(ev \o l1.ev, TRUE, l1.out) }
            ELSE { Res(ev \o l1.ev \o l2.ev, l2.ok, l2.out) : l2 \in L }
            : l1 \in L }

\* remove_background_removebg giving up where the code falls back.
AIImageProcessor_remove_background_removebg_no_fallback(input_path) ==
    IF "removebg" \notin api_keys \/ input_path \notin files
    THEN { Res(<<>>, FALSE, NoPath) }
    ELSE { Res(<<removebg_request(input_path, status)>>, status = "200",
               IF status = "200"
               THEN AIImageProcessor_generate_filename("removebg", "png")
               ELSE NoPath) : status \in RemoteOutcomes }

AIImageProcessor_remove_background_removebg(input_path) ==
    IF "removebg" \notin api_keys
    THEN AIImageProcessor_remove_background_local(input_path)
    ELSE IF input_path \notin files
    THEN \* open(input_path) raised: the except branch
         AIImageProcessor_remove_background_local(input_path)
    ELSE UNION {
           CASE status = "200" ->
                  { Res(<<removebg_request(input_path, status)>>, TRUE,
                        AIImageProcessor_generate_filename("removebg", "png")) }
             [] status = "timeout" ->
                  \* requests.post raised: the except branch
                  { Res(<<removebg_request(input_path, status)>> \o l.ev,
                        l.ok, l.out) :
                      l \in AIImageProcessor_remove_background_local(
                                input_path) }
             [] OTHER ->
                  Retried(<<removebg_request(input_path, status)>>,
                      AIImageProcessor_remove_background_local(input_path))
           : status \in RemoteOutcomes }

AIImageProcessor_generate_background_local(input_path) ==
    { Res(<<Ev("local", "generate_background_local", NoKb, input_path, NoArg,
               ok)>>,
          ok,
          IF ok
          THEN AIImageProcessor_generate_filename("bg_generated_local", "jpg")
          ELSE NoPath) :
        ok \in IF input_path \in files THEN BOOLEAN ELSE {FALSE} }

\* The request to sdk.photoroom.com with its answer.
photoroom_request(no_bg_path, status) ==
    Ev("remote", "sdk.photoroom.com", NoKb, no_bg_path, <<status>>,
       status = "200")

AIImageProcessor_generate_background_photoroom(input_path) ==
    IF "photoroom" \notin api_keys
    THEN AIImageProcessor_generate_background_local(input_path)
    ELSE UNION {
           IF ~rm.ok
           THEN \* remove_background_removebg raised: the except branch
                { Res(rm.ev \o l.ev, l.ok, l.out) :
                    l \in AIImageProcessor_generate_background_local(
                              input_path) }
           ELSE UNION {
                  CASE status = "200" ->
                         { Res(rm.ev
                                 \o <<photoroom_request(rm.out, status)>>,
                               TRUE,
                               AIImageProcessor_generate_filename(
                                   "photoroom_bg", "jpg")) }
                    [] status = "timeout" ->
                         { Res(rm.ev
                                 \o <<photoroom_request(rm.out, status)>>
                                 \o l.ev,
                               l.ok, l.out) :
                             l \in AIImageProcessor_generate_background_local(
                                       input_path) }
                    [] OTHER ->
                         Retried(
                             rm.ev \o <<photoroom_request(rm.out, status)>>,
                             AIImageProcessor_generate_background_local(
                                 input_path))
                  : status \in RemoteOutcomes }
           : rm \in AIImageProcessor_remove_background_removebg(input_path) }

(***************************************************************************)
(* ImageProcessor (deepseek_python_20251015_fc208f.py): the processor      *)
(* whose methods TelegramBot calls.                                        *)
(***************************************************************************)
ImageProcessor_local(image_path, suffix, extension) ==
    { Res(<<>>, ok,
          IF ok
          THEN ImageProcessor_get_output_path(image_path, suffix, extension)
          ELSE NoPath) :
        ok \in IF image_path \in files THEN BOOLEAN ELSE {FALSE} }

ImageProcessor_resize_image(image_path, width, height) ==
    ImageProcessor_local(image_path, "resized", "")

ImageProcessor_smart_crop(image_path, mode) ==
    IF mode \in {"smart", "square", "portrait", "landscape"}
    THEN ImageProcessor_local(image_path, "cropped", "")
    ELSE {Res(<<>>, FALSE, NoPath)}

ImageProcessor_remove_background(image_path) ==
    { Res(<<Ev("local", "remove_background", NoKb, image_path, NoArg, ok)>>,
          ok,
          IF ok
          THEN ImageProcessor_get_output_path(image_path, "no_bg", "png")
          ELSE NoPath) :
        ok \in IF image_path \in files THEN BOOLEAN ELSE {FALSE} }

ImageProcessor_generate_background(image_path) ==
    UNION {
      IF ~rm.ok THEN { Res(rm.ev, FALSE, NoPath) }
      ELSE { Res(rm.ev, ok,
                 IF ok
                 THEN ImageProcessor_get_output_path(
                          image_path, "new_bg_gradient", "")
                 ELSE NoPath) : ok \in BOOLEAN }
      : rm \in ImageProcessor_remove_background(image_path) }

ImageProcessor_enhance_quality(image_path) ==
    ImageProcessor_local(image_path, "enhanced", "")

ImageProcessor_convert_format(image_path, target_format) ==
    IF target_format \notin supported_formats
    THEN {Res(<<>>, FALSE, NoPath)}
    ELSE ImageProcessor_local(image_path, "converted", target_format)

(***************************************************************************)
(* What a handler run leaves behind: its trace, the session store, the     *)
(* upload directory and the number of uploads stored.                      *)
(***************************************************************************)
Out(tr, photos, fs, id) == [tr |-> tr, photos |-> photos, files |-> fs, id |-> id]

\* The runs T of a handler that changes neither store.
Unchanged(T) == { Out(t, user_photos, files, next_id) : t \in T }

(***************************************************************************)
(* SimpleTelegramBot (bot_simple.py).  api_request raises on every failed  *)
(* request, so a handler goes on only after a delivered call.              *)
(***************************************************************************)
\* except branch of handle_callback_query: one more edit, itself guarded.
SimpleTelegramBot_callback_except(T) ==
    Try(T, "editMessageText", "An error occurred. Please try again.", NoKb,
        NoPath)

\* except branch of a process_* method: the failure notice; when that edit
\* raises too, the exception reaches handle_callback_query.
SimpleTelegramBot_process_except(T, failure) ==
    LET E == Try(T, "editMessageText", failure, NoKb, NoPath)
    IN  Passed(E) \cup SimpleTelegramBot_callback_except(Raised(E))

\* process_* without the progress notice: the processor is called at once.
SimpleTelegramBot_process_silent(tr, progress, called, R, success, failure) ==
    LET T2 == IF called THEN { [t |-> tr \o r.ev, r |-> r] : r \in R } ELSE {}
        T3 == UNION { Try({x.t}, "sendPhoto", "", NoKb, x.r.out) :
                        x \in { y \in T2 : y.r.ok } }
        T4 == Try(Passed(T3), "editMessageText", success, NoKb, NoPath)
        raised == (IF called THEN {} ELSE {tr})
                    \cup { x.t : x \in { y \in T2 : ~y.r.ok } }
                    \cup Raised(T3) \cup Raised(T4)
    IN  Passed(T4) \cup SimpleTelegramBot_process_except(raised, failure)

\* try body of a process_* method: progress notice, processor call, result
\* photo, success notice.  `called` is FALSE when the lookup of the action's
\* parameter raises KeyError before the processor is reached.
SimpleTelegramBot_process(tr, progress, called, R, success, failure) ==
    LET T1 == Try({tr}, "editMessageText", progress, NoKb, NoPath)
        T2 == IF called
              THEN { [t |-> t1 \o r.ev, r |-> r] : t1 \in Passed(T1), r \in R }
              ELSE {}
        T3 == UNION { Try({x.t}, "sendPhoto", "", NoKb, x.r.out) :
                        x \in { y \in T2 : y.r.ok } }
        T4 == Try(Passed(T3), "editMessageText", success, NoKb, NoPath)
        raised == Raised(T1)
                    \cup (IF called THEN {} ELSE Passed(T1))
                    \cup { x.t : x \in { y \in T2 : ~y.r.ok } }
                    \cup Raised(T3) \cup Raised(T4)
    IN  Passed(T4) \cup SimpleTelegramBot_process_except(raised, failure)

NotCalled == {}

SimpleTelegramBot_process_resize(tr, photo_path, action) ==
    SimpleTelegramBot_process(tr, "Resizing image... Please wait.",
        action \in DOMAIN size_map,
        IF action \in DOMAIN size_map
        THEN OpCall("resize_image", photo_path, size_map[action],
                 AIImageProcessor_resize_image(photo_path,
                     size_map[action][1], size_map[action][2]))
        ELSE NotCalled,
        "Image resized successfully!",
        "Failed to resize image. Please try again.")

SimpleTelegramBot_process_crop(tr, photo_path, action) ==
    SimpleTelegramBot_process(tr, "Cropping image... Please wait.", TRUE,
        OpCall("smart_crop", photo_path, <<StripPrefix(action)>>,
            AIImageProcessor_smart_crop(photo_path, StripPrefix(action))),
        "Image cropped successfully!",
        "Failed to crop image. Please try again.")

SimpleTelegramBot_process_remove_background(tr, photo_path) ==
    SimpleTelegramBot_process(tr,
        "Removing background with AI... Please wait.", TRUE,
        OpCall("remove_background_removebg", photo_path, NoArg,
            AIImageProcessor_remove_background_removebg(photo_path)),
        "Background removed using AI!",
        "Failed to remove background. Please try again.")

SimpleTelegramBot_process_generate_background(tr, photo_path) ==
    SimpleTelegramBot_process(tr,
        "Generating new background with AI... Please wait.", TRUE,
        OpCall("generate_background_photoroom", photo_path, NoArg,
            AIImageProcessor_generate_background_photoroom(photo_path)),
        "Background generated using AI!",
        "Failed to generate background. Please try again.")

\* Shows the resolution options; calls no processor method.
SimpleTelegramBot_process_enhance_quality(tr, photo_path) ==
    LET T1 == Try({tr}, "editMessageText", "Choose enhancement quality:",
                  EnhanceKb, NoPath)
    IN  Passed(T1)
          \cup SimpleTelegramBot_process_except(Raised(T1),
                   "Failed to show enhancement options. Please try again.")

SimpleTelegramBot_process_convert_format(tr, photo_path, action) ==
    SimpleTelegramBot_process(tr, "Converting format... Please wait.",
        action \in DOMAIN format_map,
        IF action \in DOMAIN format_map
        THEN OpCall("convert_format", photo_path, <<format_map[action]>>,
                 AIImageProcessor_convert_format(photo_path,
                     format_map[action]))
        ELSE NotCalled,
        "Format converted successfully!",
        "Failed to convert format. Please try again.")

SimpleTelegramBot_process_enhance_resolution(tr, photo_path, action) ==
    SimpleTelegramBot_process(tr, "Enhancing image quality... Please wait.",
        action \in DOMAIN resolution_map,
        IF action \in DOMAIN resolution_map
        THEN OpCall("enhance_quality_ai", photo_path,
                 <<resolution_map[action]>>,
                 AIImageProcessor_enhance_quality_ai(photo_path,
                     resolution_map[action]))
        ELSE NotCalled,
        "Quality enhanced!",
        "Failed to enhance quality. Please try again.")

\* A branch of handle_callback_query that only edits the menu message.
SimpleTelegramBot_menu(tr, text, kb) ==
    LET T1 == Try({tr}, "editMessageText", text, kb, NoPath)
    IN  Passed(T1) \cup SimpleTelegramBot_callback_except(Raised(T1))

SimpleTelegramBot_dispatch(tr, user_id, action) ==
    LET photo_path == user_photos[user_id]
    IN  CASE action = "resize" ->
               SimpleTelegramBot_menu(tr, "Choose resize option:",
                   ResizeKb("back"))
          [] StartsWith(action, "resize_") ->
               SimpleTelegramBot_process_resize(tr, photo_path, action)
          [] action = "crop" ->
               SimpleTelegramBot_menu(tr, "Choose crop option:",
                   CropKb("back"))
          [] StartsWith(action, "crop_") ->
               SimpleTelegramBot_process_crop(tr, photo_path, action)
          [] action = "remove_bg" ->
               SimpleTelegramBot_process_remove_background(tr, photo_path)
          [] action = "generate_bg" ->
               SimpleTelegramBot_process_generate_background(tr, photo_path)
          [] action = "enhance" ->
               SimpleTelegramBot_process_enhance_quality(tr, photo_path)
          [] action = "convert" ->
               SimpleTelegramBot_menu(tr, "Choose format:",
                   ConvertKb("back"))
          [] StartsWith(action, "convert_") ->
               SimpleTelegramBot_process_convert_format(tr, photo_path, action)
          [] StartsWith(action, "enhance_") ->
               SimpleTelegramBot_process_enhance_resolution(tr, photo_path,
                   action)
          [] action = "back" ->
               SimpleTelegramBot_menu(tr,
                   "What would you like to do with your photo?", MainKb)
          [] OTHER -> {tr}

\* handle_callback_query without the check of user_photos.
SimpleTelegramBot_handle_callback_query_unchecked(user_id, action) ==
    LET T0 == Try({<<>>}, "answerCallbackQuery", "", NoKb, NoPath)
        answered == UNION { SimpleTelegramBot_dispatch(tr, user_id, action) :
                              tr \in Passed(T0) }
    IN  Unchanged(answered \cup SimpleTelegramBot_callback_except(Raised(T0)))

\* handle_callback_query bound to the menu on screen: a token the keyboard
\* shown last does not offer is acknowledged and ignored.
SimpleTelegramBot_handle_callback_query_by_menu(user_id, action) ==
    LET T0 == Try({<<>>}, "answerCallbackQuery", "", NoKb, NoPath)
        answered == UNION {
            IF user_photos[user_id] = NoPhoto
            THEN SimpleTelegramBot_menu(tr, "Please send a photo first!", NoKb)
            ELSE IF action \in Buttons(shown[user_id])
            THEN SimpleTelegramBot_dispatch(tr, user_id, action)
            ELSE {tr}
            : tr \in Passed(T0) }
    IN  Unchanged(answered \cup SimpleTelegramBot_callback_except(Raised(T0)))

SimpleTelegramBot_handle_callback_query(user_id, action) ==
    LET T0 == Try({<<>>}, "answerCallbackQuery", "", NoKb, NoPath)
        answered == UNION {
            IF user_photos[user_id] = NoPhoto
            THEN SimpleTelegramBot_menu(tr, "Please send a photo first!", NoKb)
            ELSE SimpleTelegramBot_dispatch(tr, user_id, action)
            : tr \in Passed(T0) }
    IN  Unchanged(answered \cup SimpleTelegramBot_callback_except(Raised(T0)))

\* except branch of handle_photo: the notice is sent unguarded.
SimpleTelegramBot_photo_except(T) ==
    Try(T, "sendMessage",
        "Sorry, there was an error processing your photo. Please try again.",
        NoKb, NoPath)

SimpleTelegramBot_handle_photo(user_id, file_id) ==
    LET temp_path == <<"uploads", user_id, file_id>>
        T1 == Try({<<>>}, "getFile", "", NoKb, NoPath)
        T2 == Try(Passed(T1), "download", "", NoKb, temp_path)
        T3 == Try(Passed(T2), "sendMessage",
                  "Photo received! What would you like to do?", MainKb, NoPath)
        stored == [user_photos EXCEPT ![user_id] = temp_path]
    IN  { Out(t, stored, files \cup {temp_path}, file_id) : t \in Passed(T3) }
          \cup { Out(t, stored, files \cup {temp_path}, file_id) :
                   t \in SimpleTelegramBot_photo_except(Raised(T3)) }
          \cup Unchanged(
                   SimpleTelegramBot_photo_except(Raised(T1) \cup Raised(T2)))

SimpleTelegramBot_handle_text(text) ==
    Unchanged(
        CASE text = "/start" ->
               Try({<<>>}, "sendMessage", "Welcome to AI Photo Editor Bot!",
                   NoKb, NoPath)
          [] text = "/help" ->
               Try({<<>>}, "sendMessage", "Help - Photo Editor Bot", NoKb,
                   NoPath)
          [] text = "/status" ->
               Try({<<>>}, "sendMessage", "Bot Status", NoKb, NoPath)
          [] OTHER -> {<<>>})

(***************************************************************************)
(* The webhook server (webhook_server.py).  send_message, send_photo and   *)
(* edit_message_text catch every exception and return None: the handler    *)
(* goes on whether the call was delivered or not.                          *)
(***************************************************************************)
\* One leaf branch of handle_callback_query.
webhook_leaf(T, progress, R, success, failure) ==
    LET T1 == Try(T, "editMessageText", progress, NoKb, NoPath)
        T2 == { [t |-> t1 \o r.ev, r |-> r] : t1 \in T1, r \in R }
        T3 == UNION { Try({x.t}, "sendPhoto", "", NoKb, x.r.out) :
                        x \in { y \in T2 : y.r.ok } }
    IN  Try(T3, "editMessageText", success, NoKb, NoPath)
          \cup Try({ x.t : x \in { y \in T2 : ~y.r.ok } },
                   "editMessageText", failure, NoKb, NoPath)

\* handle_callback_query dropping the user's entry when a leaf has failed.
webhook_handle_callback_query_forgetful(user_id, action) ==
    LET photo_path == user_photos[user_id]
        T0 == Try({<<>>}, "answerCallbackQuery", "", NoKb, NoPath)
        failures == {"Failed to remove background.", "Failed to resize image."}
        T == IF photo_path = NoPhoto \/ photo_path \notin files
             THEN Try(T0, "editMessageText",
                      "Photo expired. Please send a new photo.", NoKb, NoPath)
             ELSE IF action = "remove_bg"
             THEN webhook_leaf(T0, "Removing background... Please wait.",
                      OpCall("remove_background_removebg", photo_path, NoArg,
                          AIImageProcessor_remove_background_removebg(
                              photo_path)),
                      "Background removed successfully!",
                      "Failed to remove background.")
             ELSE IF StartsWith(action, "resize_")
                       /\ action \in DOMAIN webhook_size_map
             THEN webhook_leaf(T0, "Resizing... Please wait.",
                      OpCall("resize_image", photo_path,
                          webhook_size_map[action],
                          AIImageProcessor_resize_image(photo_path,
                              webhook_size_map[action][1],
                              webhook_size_map[action][2])),
                      "Resize completed!", "Failed to resize image.")
             ELSE T0
    IN  { Out(t,
              IF t[Len(t)].text \in failures
              THEN [user_photos EXCEPT ![user_id] = NoPhoto]
              ELSE user_photos,
              files, next_id) : t \in Raised(T0) \cup T }

webhook_handle_callback_query(user_id, action) ==
    LET photo_path == user_photos[user_id]
        \* requests.post: raises without an answer, returns an error status
        T0 == Try({<<>>}, "answerCallbackQuery", "", NoKb, NoPath)
    IN  Unchanged(
          Raised(T0)
            \cup
          (IF photo_path = NoPhoto \/ photo_path \notin files
           THEN Try(T0, "editMessageText",
                    "Photo expired. Please send a new photo.", NoKb, NoPath)
           ELSE IF action = "remove_bg"
           THEN webhook_leaf(T0, "Removing background... Please wait.",
                    OpCall("remove_background_removebg", photo_path, NoArg,
                        AIImageProcessor_remove_background_removebg(
                            photo_path)),
                    "Background removed successfully!",
                    "Failed to remove background.")
           ELSE IF StartsWith(action, "resize_")
                     /\ action \in DOMAIN webhook_size_map
           THEN webhook_leaf(T0, "Resizing... Please wait.",
                    OpCall("resize_image", photo_path,
                        webhook_size_map[action],
                        AIImageProcessor_resize_image(photo_path,
                            webhook_size_map[action][1],
                            webhook_size_map[action][2])),
                    "Resize completed!", "Failed to resize image.")
           ELSE T0))

\* handle_photo_message keeping the path of the user's first photo.
webhook_handle_photo_message_keep_first(user_id, uuid) ==
    LET temp_path == <<"uploads", uuid>>
        T1 == Try({<<>>}, "getFile", "", NoKb, NoPath)
        T2 == Try(Passed(T1), "download", "", NoKb, temp_path)
    IN  { Out(t,
              IF user_photos[user_id] = NoPhoto
              THEN [user_photos EXCEPT ![user_id] = temp_path]
              ELSE user_photos,
              files \cup {temp_path}, uuid) :
            t \in Try(Passed(T2), "sendMessage",
                      "Photo received! What would you like to do?", MainKb,
                      NoPath) }
          \cup Unchanged(Try(Raised(T1) \cup Raised(T2), "sendMessage",
                             "Failed to download photo. Please try again.",
                             NoKb, NoPath))

\* download_photo returns None when either request fails.
webhook_handle_photo_message(user_id, uuid) ==
    LET temp_path == <<"uploads", uuid>>
        T1 == Try({<<>>}, "getFile", "", NoKb, NoPath)
        T2 == Try(Passed(T1), "download", "", NoKb, temp_path)
    IN  { Out(t, [user_photos EXCEPT ![user_id] = temp_path],
              files \cup {temp_path}, uuid) :
            t \in Try(Passed(T2), "sendMessage",
                      "Photo received! What would you like to do?", MainKb,
                      NoPath) }
          \cup Unchanged(Try(Raised(T1) \cup Raised(T2), "sendMessage",
                             "Failed to download photo. Please try again.",
                             NoKb, NoPath))

webhook_handle_text(text) ==
    Unchanged(
        IF text \in {"/start", "/help"}
        THEN Try({<<>>}, "sendMessage", "Welcome to AI Photo Editor Bot!",
                 NoKb, NoPath)
        ELSE {<<>>})

(***************************************************************************)
(* TelegramBot (deepseek_python_20251015_f33cc7.py).  Every request of the *)
(* library raises on failure.                                              *)
(***************************************************************************)
\* except branch of handle_callback: the edit is not guarded.
TelegramBot_callback_except(T) ==
    Try(T, "editMessageText", "An error occurred. Please try again.", NoKb,
        NoPath)

TelegramBot_process_except(T, failure) ==
    LET E == Try(T, "editMessageText", failure, NoKb, NoPath)
    IN  Passed(E) \cup TelegramBot_callback_except(Raised(E))

\* try body of a process_* method.
TelegramBot_process(tr, progress, R, deliver, success, failure) ==
    LET T1 == Try({tr}, "editMessageText", progress, NoKb, NoPath)
        T2 == { [t |-> t1 \o r.ev, r |-> r] : t1 \in Passed(T1), r \in R }
        T3 == UNION { Try({x.t}, deliver, "", NoKb, x.r.out) :
                        x \in { y \in T2 : y.r.ok } }
        T4 == Try(Passed(T3), "editMessageText", success, NoKb, NoPath)
        raised == Raised(T1) \cup { x.t : x \in { y \in T2 : ~y.r.ok } }
                    \cup Raised(T3) \cup Raised(T4)
    IN  Passed(T4) \cup TelegramBot_process_except(raised, failure)

TelegramBot_process_resize(tr, photo_path, action) ==
    IF action \notin DOMAIN size_map
    THEN LET T1 == Try({tr}, "editMessageText",
                       "Resizing image... Please wait.", NoKb, NoPath)
             T2 == Try(Passed(T1), "editMessageText",
                       "Invalid resize option.", NoKb, NoPath)
         IN  Passed(T2)
               \cup TelegramBot_process_except(Raised(T1) \cup Raised(T2),
                        "Failed to resize image. Please try again.")
    ELSE TelegramBot_process(tr, "Resizing image... Please wait.",
             OpCall("resize_image", photo_path, size_map[action],
                 ImageProcessor_resize_image(photo_path, size_map[action][1],
                     size_map[action][2])),
             "sendPhoto", "Image resized successfully!",
             "Failed to resize image. Please try again.")

TelegramBot_process_crop(tr, photo_path, action) ==
    TelegramBot_process(tr, "Cropping image... Please wait.",
        OpCall("smart_crop", photo_path, <<StripPrefix(action)>>,
            ImageProcessor_smart_crop(photo_path, StripPrefix(action))),
        "sendPhoto", "Image cropped successfully!",
        "Failed to crop image. Please try again.")

TelegramBot_process_remove_background(tr, photo_path) ==
    TelegramBot_process(tr, "Removing background... Please wait.",
        OpCall("remove_background", photo_path, NoArg,
            ImageProcessor_remove_background(photo_path)),
        "sendPhoto", "Background removed!",
        "Failed to remove background. Please try again.")

TelegramBot_process_generate_background(tr, photo_path) ==
    TelegramBot_process(tr, "Generating new background... Please wait.",
        OpCall("generate_background", photo_path, NoArg,
            ImageProcessor_generate_background(photo_path)),
        "sendPhoto", "Background generated successfully!",
        "Failed to generate background. Please try again.")

TelegramBot_process_enhance_quality(tr, photo_path) ==
    TelegramBot_process(tr, "Enhancing image quality... Please wait.",
        OpCall("enhance_quality", photo_path, NoArg,
            ImageProcessor_enhance_quality(photo_path)),
        "sendPhoto", "Quality enhanced successfully!",
        "Failed to enhance quality. Please try again.")

TelegramBot_process_convert_format(tr, photo_path, action) ==
    TelegramBot_process(tr, "Converting... Please wait.",
        OpCall("convert_format", photo_path, <<StripPrefix(action)>>,
            ImageProcessor_convert_format(photo_path, StripPrefix(action))),
        IF StripPrefix(action) = "png" THEN "sendDocument" ELSE "sendPhoto",
        "Converted successfully!",
        "Failed to convert format. Please try again.")

\* The menu edit without its reply_markup.
TelegramBot_menu_without_keyboard(tr, text, kb) ==
    LET T1 == Try({tr}, "editMessageText", text, NoKb, NoPath)
    IN  Passed(T1) \cup TelegramBot_callback_except(Raised(T1))

\* A branch of handle_callback that only edits the menu message.
TelegramBot_menu(tr, text, kb) ==
    LET T1 == Try({tr}, "editMessageText", text, kb, NoPath)
    IN  Passed(T1) \cup TelegramBot_callback_except(Raised(T1))

TelegramBot_dispatch(tr, user_id, action) ==
    LET photo_path == user_photos[user_id]
    IN  CASE action = "resize" ->
               TelegramBot_menu(tr, "Choose resize option:",
                   ResizeKb("back_main"))
          [] StartsWith(action, "resize_") ->
               TelegramBot_process_resize(tr, photo_path, action)
          [] action = "crop" ->
               TelegramBot_menu(tr, "Choose crop option:",
                   CropKb("back_main"))
          [] StartsWith(action, "crop_") ->
               TelegramBot_process_crop(tr, photo_path, action)
          [] action = "remove_bg" ->
               TelegramBot_process_remove_background(tr, photo_path)
          [] action = "generate_bg" ->
               TelegramBot_process_generate_background(tr, photo_path)
          [] action = "enhance" ->
               TelegramBot_process_enhance_quality(tr, photo_path)
          [] action = "convert" ->
               TelegramBot_menu(tr, "Choose format:", ConvertKb("back_main"))
          [] StartsWith(action, "convert_") ->
               TelegramBot_process_convert_format(tr, photo_path, action)
          [] action = "back_main" ->
               TelegramBot_menu(tr,
                   "What would you like to do with your photo?", MainKb)
          [] OTHER -> {tr}

TelegramBot_handle_callback(user_id, action) ==
    LET \* query.answer() stands before the try block
        T0 == Try({<<>>}, "answerCallbackQuery", "", NoKb, NoPath)
        photo_path == user_photos[user_id]
    IN  Unchanged(Raised(T0))
          \cup
        UNION {
          IF photo_path = NoPhoto
          THEN Unchanged(
                   TelegramBot_menu(tr, "Please send a photo first!", NoKb))
          ELSE IF photo_path \notin files
          THEN LET E == Try({tr}, "editMessageText",
                            "Photo file expired. Please send a new photo!",
                            NoKb, NoPath)
               IN  { Out(t, [user_photos EXCEPT ![user_id] = NoPhoto], files,
                         next_id) : t \in Passed(E) }
                     \cup Unchanged(TelegramBot_callback_except(Raised(E)))
          ELSE Unchanged(TelegramBot_dispatch(tr, user_id, action))
          : tr \in Passed(T0) }

\* except branch of handle_photo: the reply is not guarded.
TelegramBot_photo_except(T) ==
    Try(T, "sendMessage",
        "Sorry, there was an error processing your photo. Please try again.",
        NoKb, NoPath)

TelegramBot_handle_photo(user_id, file_id) ==
    LET temp_path == <<"uploads", user_id, file_id>>
        T1 == Try({<<>>}, "getFile", "", NoKb, NoPath)
        T2 == Try(Passed(T1), "download", "", NoKb, temp_path)
        T3 == Try(Passed(T2), "sendMessage",
                  "Photo received! What would you like to do?", MainKb, NoPath)
        stored == [user_photos EXCEPT ![user_id] = temp_path]
    IN  { Out(t, stored, files \cup {temp_path}, file_id) : t \in Passed(T3) }
          \cup { Out(t, stored, files \cup {temp_path}, file_id) :
                   t \in TelegramBot_photo_except(Raised(T3)) }
          \cup Unchanged(TelegramBot_photo_except(Raised(T1) \cup Raised(T2)))

TelegramBot_handle_text(text) ==
    Unchanged(
        CASE text = "/start" ->
               Try({<<>>}, "sendMessage", "Welcome to AI Photo Editor Bot!",
                   NoKb, NoPath)
          [] text = "/help" ->
               Try({<<>>}, "sendMessage", "Help - Photo Editor Bot", NoKb,
                   NoPath)
          [] text = "/status" ->
               Try({<<>>}, "sendMessage", "Bot Status", NoKb, NoPath)
          [] OTHER -> {<<>>})

(***************************************************************************)
(* The bot process: updates are handled one at a time.                     *)
(***************************************************************************)
\* The record of the update being handled; NoUpdate between two updates.
NoUpdate ==
    [type |-> "none", user |-> 0, data |-> "",
     before |-> [u \in Users |-> NoPhoto], files_before |-> {},
     shown_before |-> [u \in Users |-> NoKb]]

\* No router is at work, no image function is applied, nothing is written
\* to processed/: the state of the variables a specification does not use.
RouterIdle ==
    /\ bot = "bot_simple"
    /\ api_keys = {}
    /\ user_photos = [u \in Users |-> NoPhoto]
    /\ files = {}
    /\ next_id = 0
    /\ last = NoUpdate
    /\ trace = <<>>

OpsIdle == input = NoInput /\ result = NoResult

OutIdle == processed = <<>> /\ now = 0

\* No user has a menu message.
NoMenu == shown = [u \in Users |-> NoKb]

\* The application is not started.
AppIdle ==
    /\ env_token = "unset"
    /\ delivery = "polling"
    /\ bot_status = FALSE
    /\ telegram_bot = 0
    /\ instances = <<>>
    /\ starts = <<>>
    /\ loops = <<>>
    /\ arrived = <<>>
    /\ confirmed = 0
    /\ handling = {}
    /\ log = <<>>

Update(type, user, data) ==
    [type |-> type, user |-> user, data |-> data,
     before |-> user_photos, files_before |-> files, shown_before |-> shown]

Idle == last.type = "none"

Texts == {"/start", "/help", "/status", "hello"}

\* The provider keys of the environment.  TelegramBot's processor uses no
\* provider; the webhook server never calls generate_background_photoroom.
Init ==
    /\ bot \in Bots
    /\ api_keys \in SUBSET {"removebg", "photoroom"}
    /\ bot = "TelegramBot" => api_keys = {}
    /\ bot = "webhook_server" => "photoroom" \notin api_keys
    /\ user_photos = [u \in Users |-> NoPhoto]
    /\ files = {}
    /\ next_id = 0
    /\ last = NoUpdate
    /\ trace = <<>>
    /\ OpsIdle
    /\ OutIdle
    /\ NoMenu
    /\ AppIdle

\* The handler has run: its effects become the state.
Effects(update, out) ==
    /\ last' = update
    /\ trace' = out.tr
    /\ user_photos' = out.photos
    /\ files' = out.files
    /\ next_id' = out.id
    /\ UNCHANGED <<bot, api_keys, ops_vars, out_vars, app_vars>>

Handled(update, out) == Effects(update, out) /\ UNCHANGED shown

handle_text(text) ==
    CASE bot = "bot_simple" -> SimpleTelegramBot_handle_text(text)
      [] bot = "webhook_server" -> webhook_handle_text(text)
      [] bot = "TelegramBot" -> TelegramBot_handle_text(text)

handle_photo(user_id, id) ==
    CASE bot = "bot_simple" -> SimpleTelegramBot_handle_photo(user_id, id)
      [] bot = "webhook_server" -> webhook_handle_photo_message(user_id, id)
      [] bot = "TelegramBot" -> TelegramBot_handle_photo(user_id, id)

handle_callback(user_id, action) ==
    CASE bot = "bot_simple" ->
           SimpleTelegramBot_handle_callback_query(user_id, action)
      [] bot = "webhook_server" ->
           webhook_handle_callback_query(user_id, action)
      [] bot = "TelegramBot" -> TelegramBot_handle_callback(user_id, action)

\* A text message.
HandleText(user_id, text) ==
    /\ Idle
    /\ \E out \in handle_text(text) :
           Handled(Update("text", user_id, text), out)

\* A photo message.
HandlePhoto(user_id) ==
    /\ Idle
    /\ next_id < MaxUploads
    /\ \E out \in handle_photo(user_id, next_id + 1) :
           Handled(Update("photo", user_id, ""), out)

\* A button press.
HandleCallback(user_id, action) ==
    /\ Idle
    /\ \E out \in handle_callback(user_id, action) :
           Handled(Update("callback", user_id, action), out)

\* A file of uploads/ disappears (the directory is ephemeral, nothing in
\* the process removes from it).
ExpireFile(path) ==
    /\ Idle
    /\ files' = files \ {path}
    /\ UNCHANGED <<bot, api_keys, user_photos, next_id, last, trace, ops_vars,
                   out_vars, shown, app_vars>>

\* The dispatcher takes the next update.
NextUpdate ==
    /\ ~Idle
    /\ last' = NoUpdate
    /\ trace' = <<>>
    /\ UNCHANGED <<bot, api_keys, user_photos, files, next_id, ops_vars,
                   out_vars, shown, app_vars>>

Next ==
    \/ \E user_id \in Users, text \in Texts : HandleText(user_id, text)
    \/ \E user_id \in Users : HandlePhoto(user_id)
    \/ \E user_id \in Users, action \in Tokens : HandleCallback(user_id, action)
    \/ \E path \in files : ExpireFile(path)
    \/ NextUpdate

Spec == Init /\ [][Next]_vars

(***************************************************************************)
(* Vocabulary of the properties.  They are stated on the record of the     *)
(* update that has just been handled.                                      *)
(***************************************************************************)
ProgressNotices ==
    {"Resizing image... Please wait.", "Cropping image... Please wait.",
     "Removing background with AI... Please wait.",
     "Generating new background with AI... Please wait.",
     "Converting format... Please wait.",
     "Enhancing image quality... Please wait.",
     "Removing background... Please wait.", "Resizing... Please wait.",
     "Generating new background... Please wait.",
     "Converting... Please wait."}

SuccessNotices ==
    {"Image resized successfully!", "Image cropped successfully!",
     "Background removed using AI!", "Background generated using AI!",
     "Format converted successfully!", "Quality enhanced!",
     "Background removed successfully!", "Resize completed!",
     "Background removed!", "Background generated successfully!",
     "Quality enhanced successfully!", "Converted successfully!"}

FailureNotices ==
    {"Failed to resize image. Please try again.",
     "Failed to crop image. Please try again.",
     "Failed to remove background. Please try again.",
     "Failed to generate background. Please try again.",
     "Failed to convert format. Please try again.",
     "Failed to enhance quality. Please try again.",
     "Failed to remove background.", "Failed to resize image.",
     "An error occurred. Please try again."}

ExpiredNotices ==
    {"Photo expired. Please send a new photo.",
     "Photo file expired. Please send a new photo!"}

NoPhotoNotices == {"Please send a photo first!"} \cup ExpiredNotices

DeliveryKinds == {"sendPhoto", "sendDocument"}

Callback == last.type = "callback"

\* What the session store held for the user of the update when the handler
\* started, and whether that file was in uploads/.
StoredBefore == last.before[last.user]
HadPhoto == StoredBefore # NoPhoto
FileBefore == StoredBefore \in last.files_before

SessionUnchanged == user_photos = last.before /\ files = last.files_before

IsEdit(i, texts) ==
    trace[i].kind = "editMessageText" /\ trace[i].text \in texts

Ops == { i \in DOMAIN trace : trace[i].kind = "op" }
Deliveries == { i \in DOMAIN trace : trace[i].kind \in DeliveryKinds }

\* No request to the Bot API failed during the run.
AllDelivered == \A i \in DOMAIN trace : IsTransport(trace[i]) => trace[i].ok

\* The press was acknowledged.
Acknowledged ==
    /\ Len(trace) > 0
    /\ trace[1].kind = "answerCallbackQuery"
    /\ trace[1].ok

\* The keyboard the menu message shows after the run: that of the last
\* delivered edit.
MenuEdits ==
    { i \in DOMAIN trace : trace[i].kind = "editMessageText" /\ trace[i].ok }
LastMenuEdit == CHOOSE i \in MenuEdits : \A j \in MenuEdits : j <= i

(***************************************************************************)
(* C1.  The router invokes an image operation only if the stored photo     *)
(* path names a file that exists at that moment; when a path is stored but *)
(* the file is missing, it reports that the photo has expired (whenever    *)
(* the Bot API takes its requests) and invokes no operation.               *)
(* bot_simple.py does not look at the file: this does not hold.            *)
(***************************************************************************)
C1_OperationOnlyOnExistingFile ==
    Callback =>
      /\ Ops # {} => HadPhoto /\ FileBefore
      /\ (HadPhoto /\ ~FileBefore /\ AllDelivered) =>
            /\ Ops = {}
            /\ \E i \in DOMAIN trace : IsEdit(i, ExpiredNotices)

\* bot_simple has called a processor method on a file that is gone and has
\* shown the method's failure notice.
C1_MissingFileDispatched ==
    /\ bot = "bot_simple"
    /\ Callback /\ HadPhoto /\ ~FileBefore /\ AllDelivered
    /\ \E i \in Ops : trace[i].path = StoredBefore /\ ~trace[i].ok
    /\ \E i \in DOMAIN trace :
          IsEdit(i, FailureNotices) /\ ~IsEdit(i, ExpiredNotices)

(***************************************************************************)
(* C2.  As claimed: when a user with no photo in the session store presses *)
(* any button, the transport is handed exactly one no-photo notice, no     *)
(* image operation is invoked, no remote call is made, and the session     *)
(* store is unchanged.  This fails when the acknowledgement of the press   *)
(* fails: the polling routers then show no such notice.                    *)
(***************************************************************************)
NoPhotoNoticesSent ==
    { i \in DOMAIN trace :
        /\ trace[i].kind \in {"editMessageText", "sendMessage"}
        /\ trace[i].text \in NoPhotoNotices }

C2_ExactlyOneNotice ==
    (Callback /\ ~HadPhoto) =>
      /\ Cardinality(NoPhotoNoticesSent) = 1
      /\ \A i \in DOMAIN trace : trace[i].kind \notin {"op", "remote", "local"}
      /\ SessionUnchanged

(***************************************************************************)
(* C2, amended.  When a user with no photo in the session store presses    *)
(* any button, no image operation is invoked, no remote call is made, the  *)
(* session store is unchanged and at most one no-photo notice is handed to *)
(* the transport: exactly one when the press was acknowledged, and in the  *)
(* polling routers none when it was not.                                   *)
(***************************************************************************)
C2_NoPhotoPress ==
    (Callback /\ ~HadPhoto) =>
      /\ \A i \in DOMAIN trace : trace[i].kind \notin {"op", "remote", "local"}
      /\ SessionUnchanged
      /\ Cardinality(NoPhotoNoticesSent) <= 1
      /\ Acknowledged => Cardinality(NoPhotoNoticesSent) = 1
      /\ (~Acknowledged /\ bot # "webhook_server") => NoPhotoNoticesSent = {}

\* An acknowledged press without a photo, answered by the delivered notice.
C2_NoticeSent ==
    /\ Callback /\ ~HadPhoto /\ Acknowledged
    /\ last.data = "remove_bg"
    /\ \E i \in NoPhotoNoticesSent : trace[i].ok

(***************************************************************************)
(* C3.  The status message is edited to a success notice only when the     *)
(* operation returned a result and that result was delivered to the user;  *)
(* on operation failure or delivery failure it is edited to a failure      *)
(* notice and never to a success notice.                                   *)
(* webhook_server.py's send_photo swallows the failure: this does not      *)
(* hold.                                                                   *)
(***************************************************************************)
C3_SuccessOnlyAfterDelivery ==
    Callback =>
      /\ \A i \in DOMAIN trace : IsEdit(i, SuccessNotices) =>
            \E j \in Deliveries, k \in Ops :
                k < j /\ j < i /\ trace[k].ok /\ trace[j].ok
      /\ ((\E k \in Ops : ~trace[k].ok) \/ (\E j \in Deliveries : ~trace[j].ok))
            => /\ \E i \in DOMAIN trace : IsEdit(i, FailureNotices)
               /\ \A i \in DOMAIN trace : ~IsEdit(i, SuccessNotices)

\* The webhook server has shown the success notice after a send_photo that
\* was not delivered.
C3_SuccessAfterFailedDelivery ==
    /\ bot = "webhook_server" /\ Callback
    /\ \E j \in Deliveries, i \in DOMAIN trace :
          j < i /\ ~trace[j].ok /\ IsEdit(i, SuccessNotices) /\ trace[i].ok

(***************************************************************************)
(* C4.  A leaf action edits the status message to an in-progress notice    *)
(* before it calls the operation; the operation is called with the stored  *)
(* photo path of the user's session; and the result photo is sent before   *)
(* the status message is edited to the success notice.                     *)
(***************************************************************************)
C4_LeafOrdering ==
    Callback =>
      /\ \A k \in Ops :
            /\ trace[k].path = StoredBefore
            /\ \E i \in DOMAIN trace : i < k /\ IsEdit(i, ProgressNotices)
            /\ \A i \in DOMAIN trace : i < k => ~IsEdit(i, SuccessNotices)
      /\ \A i \in DOMAIN trace : IsEdit(i, SuccessNotices) =>
            \E j \in Deliveries, k \in Ops :
                /\ k < j /\ j < i
                /\ trace[k].ok
                /\ trace[j].path # NoPath

\* A leaf action that went through: progress notice, operation, photo,
\* success notice, all delivered.
C4_LeafDelivered ==
    /\ Callback /\ AllDelivered
    /\ \E k \in Ops : trace[k].ok
    /\ \E j \in Deliveries : trace[j].ok
    /\ \E i \in DOMAIN trace : IsEdit(i, SuccessNotices)

(***************************************************************************)
(* C5.  A leaf action that fails (its operation raises, its result is not  *)
(* delivered, or a failure notice is shown) leaves the stored photo path   *)
(* and the files of uploads/ unchanged: the path the operation was called  *)
(* with is still the user's stored path, so the same press is dispatched   *)
(* against the same photo.                                                 *)
(***************************************************************************)
LeafFailed ==
    /\ Callback
    /\ \/ \E k \in Ops : ~trace[k].ok
       \/ \E j \in Deliveries : ~trace[j].ok
       \/ \E i \in DOMAIN trace : IsEdit(i, FailureNotices)

C5_FailedLeafKeepsPhoto ==
    LeafFailed =>
      /\ SessionUnchanged
      /\ \A k \in Ops : trace[k].path = user_photos[last.user]

\* The operation of a leaf action has raised on a photo that is on file,
\* and the failure notice was shown.
C5_LeafHasFailed ==
    /\ Callback /\ HadPhoto /\ FileBefore
    /\ \E k \in Ops : ~trace[k].ok
    /\ \E i \in DOMAIN trace : IsEdit(i, FailureNotices) /\ trace[i].ok

(***************************************************************************)
(* C6.  After a photo upload that was handled without a failed request,    *)
(* whatever the session held before, the user's stored path is the path    *)
(* the new photo was downloaded to (a file of uploads/), no other user's   *)
(* entry has changed, and exactly one message was sent: the main menu with *)
(* the six top-level actions.                                              *)
(***************************************************************************)
TopLevelActions ==
    {"resize", "crop", "remove_bg", "generate_bg", "enhance", "convert"}

C6_UploadStoresPathAndShowsMenu ==
    (last.type = "photo" /\ AllDelivered) =>
      /\ \E i \in DOMAIN trace :
            /\ trace[i].kind = "download"
            /\ user_photos[last.user] = trace[i].path
            /\ trace[i].path \in files
      /\ \A u \in Users \ {last.user} : user_photos[u] = last.before[u]
      /\ Cardinality({ i \in DOMAIN trace : trace[i].kind = "sendMessage" }) = 1
      /\ \E i \in DOMAIN trace :
            /\ trace[i].kind = "sendMessage"
            /\ Buttons(trace[i].kb) = TopLevelActions
            /\ Cardinality(Buttons(trace[i].kb)) = 6

\* A second upload of a user has replaced the path of the first.
C6_EarlierPhotoReplaced ==
    /\ last.type = "photo" /\ AllDelivered
    /\ HadPhoto
    /\ user_photos[last.user] # StoredBefore

(***************************************************************************)
(* C7.  With a photo on file, pressing resize, crop or convert renders     *)
(* that kind's option set (its leaf actions plus back) by editing the menu *)
(* message and invokes no operation (stated for a run in which the Bot API *)
(* took every request).                                                    *)
(* webhook_server.py offers the three buttons and handles none of them:    *)
(* this does not hold.                                                     *)
(***************************************************************************)
\* The option tables of the specification.
OptionSets ==
    [resize |-> {"resize_8k", "resize_4k", "resize_1080p", "resize_720p",
                 "resize_mobile"},
     crop |-> {"crop_smart", "crop_square", "crop_portrait", "crop_landscape"},
     convert |-> {"convert_jpeg", "convert_png", "convert_webp"}]

BackTokens == {"back", "back_main"}

SubmenuPressed ==
    /\ Callback
    /\ last.data \in DOMAIN OptionSets
    /\ HadPhoto /\ FileBefore
    /\ AllDelivered

C7_SubmenuRendered ==
    SubmenuPressed =>
      /\ Ops = {}
      /\ \E i \in DOMAIN trace, back \in BackTokens :
            /\ trace[i].kind = "editMessageText"
            /\ Buttons(trace[i].kb) = OptionSets[last.data] \cup {back}

\* The webhook server has acknowledged the press of a sub-menu button and
\* has done nothing else.
C7_SubmenuIgnored ==
    /\ bot = "webhook_server"
    /\ SubmenuPressed
    /\ Len(trace) = 1

(***************************************************************************)
(* C8.  Each resize leaf action invokes resize exactly once, with the      *)
(* stored photo path and its fixed target box: 8k 7680x4320, 4k 3840x2160, *)
(* 1080p 1920x1080, 720p 1280x720, mobile 720x1280 (stated for a photo on  *)
(* file and a run in which the Bot API took every request).                *)
(* webhook_server.py has no entry for resize_mobile: this does not hold.   *)
(***************************************************************************)
\* The resize row of the specification's table.
TargetBox ==
    [resize_8k |-> <<7680, 4320>>, resize_4k |-> <<3840, 2160>>,
     resize_1080p |-> <<1920, 1080>>, resize_720p |-> <<1280, 720>>,
     resize_mobile |-> <<720, 1280>>]

ResizePressed ==
    /\ Callback
    /\ last.data \in DOMAIN TargetBox
    /\ HadPhoto /\ FileBefore
    /\ AllDelivered

C8_ResizeOnceWithFixedBox ==
    ResizePressed =>
      /\ Cardinality(Ops) = 1
      /\ \A k \in Ops :
            /\ trace[k].text = "resize_image"
            /\ trace[k].path = StoredBefore
            /\ trace[k].arg = TargetBox[last.data]

\* The webhook server has acknowledged resize_mobile and has done nothing
\* else.
C8_MobileIgnored ==
    /\ bot = "webhook_server"
    /\ ResizePressed
    /\ last.data = "resize_mobile"
    /\ Ops = {}
    /\ Len(trace) = 1

(***************************************************************************)
(* C9.  As claimed: from any state, pressing back re-renders the           *)
(* six-button main menu by editing the menu message, invokes no operation, *)
(* and leaves the session unchanged (stated for the back token of the      *)
(* router and a run in which the Bot API took every request).  This fails  *)
(* in the state without a photo, where the press is answered with the      *)
(* no-photo notice.                                                        *)
(***************************************************************************)
\* The callback_data of the router's back buttons.
BackToken == IF bot = "TelegramBot" THEN "back_main" ELSE "back"

BackPressed == Callback /\ last.data = BackToken /\ AllDelivered

MainMenuRendered ==
    \E i \in DOMAIN trace :
        /\ trace[i].kind = "editMessageText"
        /\ trace[i].kb = MainKb
        /\ Buttons(trace[i].kb) = TopLevelActions

LeafDelivered ==
    /\ Callback
    /\ \E j \in Deliveries : trace[j].ok
    /\ \E i \in DOMAIN trace : IsEdit(i, SuccessNotices) /\ trace[i].ok

C10_BackInMainMenu ==
    LeafDelivered =>
      /\ SessionUnchanged
      /\ user_photos[last.user] = StoredBefore
      /\ Buttons(trace[LastMenuEdit].kb) = TopLevelActions

\* The result was delivered and the menu message is left with the success
\* notice and no button.
C10_MenuRemoved ==
    /\ LeafDelivered /\ AllDelivered
    /\ SessionUnchanged
    /\ IsEdit(LastMenuEdit, SuccessNotices)
    /\ trace[LastMenuEdit].kb = NoKb

(***************************************************************************)
(* C11.  removeBackground always returns a valid image path and never      *)
(* raises, whether the provider credential is absent, the remote call      *)
(* fails, or the local fallback is the one that runs; when the credential  *)
(* is unset no remote request is made at all.                              *)
(* remove_background_local re-raises what Pillow raises (ai_apis.py 136-   *)
(* 138), and remove_background_removebg returns its result unguarded: the  *)
(* first half does not hold.                                               *)
(***************************************************************************)
RemoveBgRequests ==
    { i \in DOMAIN trace :
        trace[i].kind = "remote" /\ trace[i].text = "api.remove.bg" }

RemoveBackgroundCalls ==
    { i \in Ops : trace[i].text = "remove_background_removebg" }

C11_RemoveBackgroundNeverRaises ==
    \A i \in RemoveBackgroundCalls :
        /\ trace[i].ok
        /\ "removebg" \notin api_keys => RemoveBgRequests = {}

\* Only the second half: without the credential no request is made.
C11_NoRequestWithoutCredential ==
    (RemoveBackgroundCalls # {} /\ "removebg" \notin api_keys)
        => RemoveBgRequests = {}

\* Without a credential the local method ran on the stored photo and raised,
\* and so did removeBackground.
C11_RemoveBackgroundRaised ==
    /\ Callback /\ HadPhoto /\ last.data = "remove_bg"
    /\ "removebg" \notin api_keys
    /\ \E i \in RemoveBackgroundCalls :
          /\ ~trace[i].ok
          /\ i < Len(trace)
          /\ trace[i + 1].kind = "local"
          /\ trace[i + 1].text = "remove_background_local"
          /\ ~trace[i + 1].ok

(***************************************************************************)
(* C12.  The remote-edit operations treat a provider response as success   *)
(* exactly when its status is 2xx; a timeout, a network error or a non-2xx *)
(* status takes the local fallback branch and is never propagated to the   *)
(* caller as a fatal error.                                                *)
(* Both providers are compared with 200 alone (ai_apis.py 51, 177), and    *)
(* the fallback's exception reaches the caller: this does not hold.        *)
(***************************************************************************)
TwoXX == {"200", "204"}

RemoteRequests == { i \in DOMAIN trace : trace[i].kind = "remote" }

\* The fallback was taken after request i.
FellBack(i) == i < Len(trace) /\ trace[i + 1].kind = "local"

\* The processor call of the router during which event i happened.
CallOf(i) == CHOOSE j \in Ops : j < i /\ \A k \in Ops : k < i => k <= j

C12_SuccessExactlyOn2xx ==
    \A i \in RemoteRequests :
        /\ trace[i].arg[1] \in TwoXX <=> ~FellBack(i)
        /\ trace[CallOf(i)].ok

\* What the code does: the answer is taken exactly when the status is 200.
C12_SuccessExactlyOn200 ==
    \A i \in RemoteRequests :
        /\ trace[i].ok <=> trace[i].arg[1] = "200"
        /\ trace[i].ok <=> ~FellBack(i)

\* A provider answered 204 and the local fallback produced the result.
C12_204FellBack ==
    \E i \in RemoteRequests :
        /\ trace[i].arg[1] = "204"
        /\ FellBack(i)
        /\ trace[i + 1].ok
        /\ trace[CallOf(i)].ok

\* A provider did not answer, the fallback raised, and so did the call.
C12_TimeoutPropagated ==
    \E i \in RemoteRequests :
        /\ trace[i].arg[1] = "timeout"
        /\ FellBack(i)
        /\ ~trace[i + 1].ok
        /\ ~trace[CallOf(i)].ok

(***************************************************************************)
(* C13.  When the remote provider is unavailable (no credential, timeout,  *)
(* network error or non-2xx) but the local fallback succeeds, a remove_bg  *)
(* or generate_bg action ends with the result photo delivered and the      *)
(* success notice; the user sees a failure notice only if the fallback     *)
(* itself also fails.                                                      *)
(* This needs the Bot API to take the requests of the run: bot_simple      *)
(* shows the failure notice when sendPhoto raises after a fallback that    *)
(* succeeded.                                                              *)
(***************************************************************************)
RemoteEditCalls ==
    { i \in Ops : trace[i].text \in {"remove_background_removebg",
                                     "generate_background_photoroom"} }

\* The last step the processor made during the router's call i.
EndOfCall(i) ==
    CHOOSE j \in i..Len(trace) :
        /\ \A k \in (i + 1)..j : trace[k].kind \in {"remote", "local"}
        /\ j = Len(trace) \/ trace[j + 1].kind \notin {"remote", "local"}

FallbackSucceeded(i) ==
    trace[EndOfCall(i)].kind = "local" /\ trace[EndOfCall(i)].ok

FallbackFailed(i) ==
    trace[EndOfCall(i)].kind = "local" /\ ~trace[EndOfCall(i)].ok

FallbackPaths ==
    { AIImageProcessor_generate_filename("bg_removed_local", "png"),
      AIImageProcessor_generate_filename("bg_generated_local", "jpg") }

FallbackResultShown(i) ==
    /\ FallbackSucceeded(i) =>
          /\ \E j \in Deliveries :
                j > i /\ trace[j].ok /\ trace[j].path \in FallbackPaths
          /\ IsEdit(Len(trace), SuccessNotices)
          /\ trace[Len(trace)].ok
    /\ (\E k \in DOMAIN trace : IsEdit(k, FailureNotices)) =>
          FallbackFailed(i)

GenerateCalls ==
    { i \in Ops : trace[i].text \in {"generate_background_photoroom",
                                     "generate_background"} }

\* Step k removes the background / puts a new background behind a file.
RemoveStep(k) ==
    \/ trace[k].kind = "remote" /\ trace[k].text = "api.remove.bg"
    \/ trace[k].kind = "local"
         /\ trace[k].text \in {"remove_background_local", "remove_background"}

GenerateStep(k) ==
    \/ trace[k].kind = "remote" /\ trace[k].text = "sdk.photoroom.com"
    \/ trace[k].kind = "local" /\ trace[k].text = "generate_background_local"

C14_RemoveBackgroundFirst ==
    \A i \in GenerateCalls :
        /\ i < Len(trace)
        /\ RemoveStep(i + 1)
        /\ trace[i + 1].path = trace[i].path
        /\ \A k \in (i + 1)..EndOfCall(i) :
              GenerateStep(k) => trace[k].path # trace[i].path

\* Without a PhotoRoom key the first step of generateBackground was the
\* local generation on the uploaded photo itself, and its result was sent.
C14_GeneratedFromOriginal ==
    /\ Callback /\ HadPhoto /\ FileBefore
    /\ last.data = "generate_bg"
    /\ "photoroom" \notin api_keys
    /\ \E i \in GenerateCalls :
          /\ trace[i].ok
          /\ i < Len(trace)
          /\ GenerateStep(i + 1)
          /\ trace[i + 1].path = StoredBefore
          /\ \E j \in Deliveries : j > i /\ trace[j].ok

\* With the key, PhotoRoom failed after removeBackground had succeeded and
\* the local generation was applied to the original.
C14_FallbackFromOriginal ==
    \E i \in GenerateCalls :
        \E r \in (i + 1)..EndOfCall(i), k \in (i + 1)..EndOfCall(i) :
            /\ trace[r].kind = "remote" /\ trace[r].text = "sdk.photoroom.com"
            /\ r < k
            /\ GenerateStep(k)
            /\ trace[k].path = trace[i].path

(***************************************************************************)
(* C22.  For one user-initiated action there is no automatic retry: at     *)
(* most one remote attempt and at most one local fallback attempt are made *)
(* before the action ends in success or failure.                           *)
(* (Counted per provider and per fallback method: generate_bg asks both    *)
(* providers once.)  A fallback that raises inside the try block is called *)
(* again by the except branch of the same method: this does not hold.      *)
(***************************************************************************)
\* The steps of the given kind and name the processor made in the run.
Attempts(kind, name) ==
    { k \in DOMAIN trace : trace[k].kind = kind /\ trace[k].text = name }

Providers == {"api.remove.bg", "sdk.photoroom.com"}
FallbackMethods == {"remove_background_local", "generate_background_local"}

C22_NoRetry ==
    /\ \A p \in Providers : Cardinality(Attempts("remote", p)) <= 1
    /\ \A m \in FallbackMethods : Cardinality(Attempts("local", m)) <= 1

\* What holds: no provider is asked twice, and no fallback method runs
\* more than twice.
C22_NoRemoteRetry ==
    /\ \A p \in Providers : Cardinality(Attempts("remote", p)) <= 1
    /\ \A m \in FallbackMethods : Cardinality(Attempts("local", m)) <= 2

\* remove.bg answered 500, the local removal raised and was run again.
C22_FallbackRetried ==
    /\ Callback /\ last.data = "remove_bg"
    /\ \E r \in Attempts("remote", "api.remove.bg") :
          /\ trace[r].arg = <<"500">>
          /\ r + 2 <= Len(trace)
          /\ trace[r + 1].kind = "local" /\ ~trace[r + 1].ok
          /\ trace[r + 2].kind = "local"
          /\ trace[r + 2].text = "remove_background_local"

\* C24: once a session exists for a user it is never removed: no update
\* (text command, upload, button press, also with an expired file or a
\* failed operation) deletes the user's entry from the session store.
C24_SessionNeverRemoved ==
    \A u \in Users : last.before[u] # NoPhoto => user_photos[u] # NoPhoto

\* What holds instead: bot_simple and the webhook server never remove an
\* entry, and TelegramBot removes only the entry of the user who pressed a
\* button while the stored file was gone from uploads/.
C24_SessionRemovedOnlyOnExpiry ==
    \A u \in Users :
        (last.before[u] # NoPhoto /\ user_photos[u] = NoPhoto)
            => /\ bot = "TelegramBot"
               /\ Callback
               /\ u = last.user
               /\ ~FileBefore

\* TelegramBot: a button is pressed after the stored file expired, and the
\* user's entry is gone.
C24_SessionRemovedOnExpiry ==
    /\ bot = "TelegramBot"
    /\ Callback
    /\ HadPhoto
    /\ ~FileBefore
    /\ user_photos[last.user] = NoPhoto
    /\ \E k \in DOMAIN trace :
         trace[k].text = "Photo file expired. Please send a new photo!"

\* The keyboards a bot renders: the main menu after an upload and the
\* submenus its router edits into the menu message.
Keyboards(b) ==
    CASE b = "bot_simple" ->
           {MainKb, ResizeKb("back"), CropKb("back"), ConvertKb("back"),
            EnhanceKb}
      [] b = "webhook_server" -> {MainKb}
      [] b = "TelegramBot" ->
           {MainKb, ResizeKb("back_main"), CropKb("back_main"),
            ConvertKb("back_main")}

\* The action tokens a bot offers on some keyboard.
Offered(b) == UNION { Buttons(kb) : kb \in Keyboards(b) }

\* The requests that show the user something: a message, an edit of the menu
\* message, a photo or a document.
Visible == {"sendMessage", "editMessageText", "sendPhoto", "sendDocument"}
Responded == \E k \in DOMAIN trace : trace[k].kind \in Visible

\* C26: every action token offered on a keyboard the bot renders is handled
\* by the router of that same bot with a user-visible response (a submenu,
\* a result or an error notice); no offered button is silently ignored.
C26_OfferedTokenAnswered ==
    (Callback /\ last.data \in Offered(bot) /\ Acknowledged) => Responded

\* What holds instead: the two polling bots answer every token they offer;
\* the webhook server answers every press without a usable photo and, with
\* one, remove_bg alone of the six buttons it offers.
C26_OfferedTokenAnsweredExceptWebhook ==
    (Callback /\ last.data \in Offered(bot) /\ Acknowledged)
        => \/ Responded
           \/ /\ bot = "webhook_server"
              /\ HadPhoto
              /\ FileBefore
              /\ last.data \in Buttons(MainKb) \ {"remove_bg"}

\* The webhook server offered crop on its main menu; the press, with the
\* photo on file, is acknowledged and nothing is shown.
C26_OfferedButtonIgnored ==
    /\ bot = "webhook_server"
    /\ Callback
    /\ last.data = "crop"
    /\ "crop" \in Offered("webhook_server")
    /\ HadPhoto
    /\ FileBefore
    /\ Acknowledged
    /\ ~Responded
    /\ Len(trace) = 1

\* The notices of a failed upload.
UploadErrors ==
    {"Sorry, there was an error processing your photo. Please try again.",
     "Failed to download photo. Please try again."}

UploadErrorReported ==
    \E k \in DOMAIN trace :
        /\ trace[k].kind = "sendMessage"
        /\ trace[k].text \in UploadErrors
        /\ trace[k].ok

MainMenuShown ==
    \E k \in DOMAIN trace :
        trace[k].kind = "sendMessage" /\ trace[k].kb = MainKb /\ trace[k].ok

\* The file of the upload was written to uploads/.
Downloaded ==
    \E k \in DOMAIN trace : trace[k].kind = "download" /\ trace[k].ok

\* C28: if the photo-upload handler reports an upload error to the user,
\* the user's stored photo path is the same as before that upload; the
\* session is updated only when the upload is acknowledged with the main
\* menu.
C28_UploadErrorKeepsSession ==
    last.type = "photo" =>
      /\ UploadErrorReported => user_photos = last.before
      /\ user_photos # last.before => MainMenuShown

\* What holds instead: the session is updated exactly when the file was
\* downloaded, whether or not the main menu could be sent; an error reported
\* for a failed getFile or download leaves it as it was.
C28_SessionFollowsDownload ==
    last.type = "photo" =>
      /\ ~Downloaded => user_photos = last.before
      /\ Downloaded =>
            \E k \in DOMAIN trace :
                /\ trace[k].kind = "download"
                /\ user_photos =
                     [last.before EXCEPT ![last.user] = trace[k].path]

\* bot_simple stored the new path, could not send the main menu and told
\* the user that the upload failed.
C28_ErrorAfterSessionUpdate ==
    /\ bot = "bot_simple"
    /\ last.type = "photo"
    /\ Downloaded
    /\ UploadErrorReported
    /\ ~MainMenuShown
    /\ user_photos[last.user] # StoredBefore
    /\ user_photos[last.user] \in files

(***************************************************************************)
(* The image operations as functions of the image's size and mode.         *)
(*                                                                         *)
(* Python computes the sizes in double precision.  A quotient a/b of two   *)
(* integers is correctly rounded, so int(a/b) is the floor of the exact    *)
(* quotient and a comparison of two such quotients is the exact one.       *)
(* Where a rounded quotient is multiplied or divided further, int() of the *)
(* outcome is the exact floor unless the exact value is an integer n: then *)
(* the rounding decides between n and n - 1, and both are outcomes.        *)
(***************************************************************************)
MaxSide == 4

\* Sides next to those of the smallest target boxes, and larger ones.
LongSides == {720, 721, 1280, 1281, 1920, 4000}

Sides == (1..MaxSide) \cup LongSides

\* Pillow modes: RGBA and LA carry an alpha channel, P can carry
\* transparency.
Modes == {"RGB", "L", "RGBA", "LA", "P"}

Images == [kind : {"image"}, width : Sides, height : Sides, mode : Modes]

Processors == {"AIImageProcessor", "ImageProcessor", "SimpleImageProcessor"}

Abs(x) == IF x < 0 THEN -x ELSE x

RECURSIVE GCD(_, _)
GCD(a, b) == IF b = 0 THEN a ELSE GCD(b, a % b)

RECURSIVE IsPowerOfTwo(_)
IsPowerOfTwo(n) == n = 1 \/ (n % 2 = 0 /\ IsPowerOfTwo(n \div 2))

\* num/den is a double without rounding.
ExactQuotient(num, den) == IsPowerOfTwo(den \div GCD(num, den))

\* int(c * (num / den))
IntOfProduct(c, num, den) ==
    IF ExactQuotient(num, den) \/ (c * num) % den # 0
    THEN { (c * num) \div den }
    ELSE { (c * num) \div den - 1, (c * num) \div den }

\* int(c / (num / den))
IntOfQuotient(c, num, den) ==
    IF ExactQuotient(num, den) \/ (c * den) % num # 0
    THEN { (c * den) \div num }
    ELSE { (c * den) \div num - 1, (c * den) \div num }

\* ai_apis.py: the (new_width, new_height) handed to img.resize
AIImageProcessor_resize_image_size(original_width, original_height, width, height) ==
    IF width * original_height > height * original_width
    THEN { <<new_width, height>> :
             new_width \in IntOfProduct(height, original_width,
                                        original_height) }
    ELSE { <<width, new_height>> :
             new_height \in IntOfQuotient(width, original_width,
                                          original_height) }

\* deepseek_python_20251015_fc208f.py, maintain_aspect=True
ImageProcessor_resize_image_size(original_width, original_height, width, height) ==
    IF original_width * height > width * original_height
    THEN { <<width, new_height>> :
             new_height \in IntOfQuotient(width, original_width,
                                          original_height) }
    ELSE { <<new_width, height>> :
             new_width \in IntOfProduct(height, original_width,
                                        original_height) }

\* image_processor.py: ratio = min(width/original_width,
\* height/original_height), both sides int(original * ratio)
SimpleImageProcessor_resize_image_size(original_width, original_height, width, height) ==
    IF width * original_height <= height * original_width
    THEN IntOfProduct(original_width, width, original_width)
           \X IntOfProduct(original_height, width, original_width)
    ELSE IntOfProduct(original_width, height, original_height)
           \X IntOfProduct(original_height, height, original_height)

resize_image_size(processor, original_width, original_height, width, height) ==
    CASE processor = "AIImageProcessor" ->
           AIImageProcessor_resize_image_size(original_width,
               original_height, width, height)
      [] processor = "ImageProcessor" ->
           ImageProcessor_resize_image_size(original_width, original_height,
               width, height)
      [] processor = "SimpleImageProcessor" ->
           SimpleImageProcessor_resize_image_size(original_width,
               original_height, width, height)

\* The boxes the menus offer.
TargetBoxes == { size_map[action] : action \in DOMAIN size_map }

\* Image.resize raises ValueError unless both sides are positive.
Image_resize(size) == size[1] > 0 /\ size[2] > 0

\* resize_image(path, width, height) on the image.
Resize(processor, box) ==
    /\ input.kind = "image"
    /\ result = NoResult
    /\ \E size \in resize_image_size(processor, input.width, input.height,
                                     box[1], box[2]) :
           result' = [op |-> "resize", processor |-> processor, box |-> box,
                      size |-> size, ok |-> Image_resize(size)]
    /\ UNCHANGED <<router_vars, input, out_vars, shown, app_vars>>

(***************************************************************************)
(* C15.  For every source size (w, h >= 1) and every supported target box, *)
(* resize produces dimensions with 1 <= newW <= targetW and                *)
(* 1 <= newH <= targetH, and newW/newH matches w/h to within a rounding    *)
(* error of one pixel in either dimension.                                 *)
(* All three implementations truncate the scaled side with int(): a source *)
(* whose aspect ratio exceeds the box's longer side gets a side of 0.      *)
(***************************************************************************)
Resized == result.op = "resize"

FitsBox ==
    /\ 1 <= result.size[1] /\ result.size[1] <= result.box[1]
    /\ 1 <= result.size[2] /\ result.size[2] <= result.box[2]

\* One of the two sides is within one pixel of what the other side and the
\* source's ratio give.
AspectKept ==
    LET skew == Abs(result.size[1] * input.height
                      - result.size[2] * input.width)
    IN  skew <= input.width \/ skew <= input.height

C15_ResizeFitsBox == Resized => result.ok /\ FitsBox /\ AspectKept

\* What holds: a resize that Pillow carries out fits and keeps the ratio.
C15_ResizeFitsBoxWhenDone == (Resized /\ result.ok) => FitsBox /\ AspectKept

\* A 1 x 721 source and the 1280 x 720 box: the new width is int(720/721).
C15_ZeroWidth ==
    /\ Resized
    /\ input.width = 1 /\ input.height = 721
    /\ result.box = <<1280, 720>>
    /\ result.size = <<0, 720>>
    /\ ~result.ok

(***************************************************************************)
(* smart_crop: the box (left, upper, right, lower) handed to img.crop.     *)
(***************************************************************************)
Min(a, b) == IF a <= b THEN a ELSE b

\* The box of the given size in the middle of the image.
Centered(img_width, img_height, new_width, new_height) ==
    LET x == (img_width - new_width) \div 2
        y == (img_height - new_height) \div 2
    IN  <<x, y, x + new_width, y + new_height>>

\* ai_apis.py; golden_ratio = 1.618 is the double next to 809/500.
AIImageProcessor_smart_crop_box(img_width, img_height, crop_type) ==
    CASE crop_type = "square" ->
           LET size == Min(img_width, img_height)
           IN  { Centered(img_width, img_height, size, size) }
      [] crop_type = "portrait" ->
           IF 4 * img_width > 3 * img_height
           THEN { Centered(img_width, img_height,
                           (img_height * 3) \div 4, img_height) }
           ELSE { Centered(img_width, img_height,
                           img_width, (img_width * 4) \div 3) }
      [] crop_type = "landscape" ->
           IF 9 * img_width > 16 * img_height
           THEN { Centered(img_width, img_height,
                           (img_height * 16) \div 9, img_height) }
           ELSE { Centered(img_width, img_height,
                           img_width, (img_width * 9) \div 16) }
      [] OTHER ->
           IF 500 * img_width > 809 * img_height
           THEN { Centered(img_width, img_height, new_width, img_height) :
                    new_width \in IntOfProduct(img_height, 809, 500) }
           ELSE { Centered(img_width, img_height, img_width, new_height) :
                    new_height \in IntOfQuotient(img_width, 809, 500) }

\* image_processor.py
SimpleImageProcessor_smart_crop_box(width, height, mode) ==
    CASE mode = "portrait" ->
           LET new_height == Min(height, (width * 16) \div 9)
               new_width == (new_height * 9) \div 16
           IN  { Centered(width, height, new_width, new_height) }
      [] mode = "landscape" ->
           LET new_width == Min(width, (height * 16) \div 9)
               new_height == (new_width * 9) \div 16
           IN  { Centered(width, height, new_width, new_height) }
      [] OTHER ->
           LET size == Min(width, height)
           IN  { Centered(width, height, size, size) }

smart_crop_box(processor, width, height, crop_type) ==
    CASE processor = "AIImageProcessor" ->
           AIImageProcessor_smart_crop_box(width, height, crop_type)
      [] processor = "SimpleImageProcessor" ->
           SimpleImageProcessor_smart_crop_box(width, height, crop_type)

\* img.crop(box) followed by save: Pillow cannot write an empty image.
Image_crop(box) == box[1] < box[3] /\ box[2] < box[4]

\* smart_crop(path, crop_type) on the image, crop_type taken from the token
\* as process_crop does.
Crop(processor, action) ==
    /\ input.kind = "image"
    /\ result = NoResult
    /\ \E box \in smart_crop_box(processor, input.width, input.height,
                                 StripPrefix(action)) :
           result' = [op |-> "crop", processor |-> processor,
                      action |-> action, crop_type |-> StripPrefix(action),
                      box |-> box, ok |-> Image_crop(box)]
    /\ UNCHANGED <<router_vars, input, out_vars, shown, app_vars>>

(***************************************************************************)
(* C16.  For every crop style (smart, square, portrait, landscape) and     *)
(* every image with width >= 1 and height >= 1, the computed crop box is   *)
(* non-empty and lies inside the image: 0 <= left < right <= width and     *)
(* 0 <= top < bottom <= height, so crop never fails on a valid image.      *)
(* The scaled side is truncated with int() and can be 0.                   *)
(***************************************************************************)
Cropped == result.op = "crop"

InsideImage ==
    /\ 0 <= result.box[1] /\ result.box[3] <= input.width
    /\ 0 <= result.box[2] /\ result.box[4] <= input.height

NonEmpty == result.box[1] < result.box[3] /\ result.box[2] < result.box[4]

C16_CropBoxInsideImage == Cropped => InsideImage /\ NonEmpty /\ result.ok

\* What holds: the box never leaves the image, and it is empty only when
\* the image is less than two pixels wide or high.
C16_CropBoxNeverOutside ==
    Cropped =>
        /\ InsideImage
        /\ result.box[1] <= result.box[3] /\ result.box[2] <= result.box[4]
        /\ (input.width >= 2 /\ input.height >= 2) => NonEmpty /\ result.ok

\* crop_portrait on an image one pixel high: new_width = int(1 * 3/4) = 0.
C16_EmptyCrop ==
    /\ Cropped
    /\ result.processor = "AIImageProcessor"
    /\ result.crop_type = "portrait"
    /\ input.height = 1 /\ input.width > 1
    /\ result.box[1] = result.box[3]
    /\ ~result.ok

(***************************************************************************)
(* C17.  The crop the bot runs for crop_square is the centered             *)
(* min(w,h) x min(w,h) square, for crop_portrait a centered box of ratio   *)
(* 9:16 (width:height) and for crop_landscape a centered box of ratio      *)
(* 16:9, each to within one pixel of rounding.                             *)
(* The bot's processor is AIImageProcessor (app.py 21, 35), whose portrait *)
(* branch cuts 3:4: this does not hold.                                    *)
(***************************************************************************)
BoxWidth == result.box[3] - result.box[1]
BoxHeight == result.box[4] - result.box[2]

\* The margins on either side differ by the odd pixel at most.
IsCentered ==
    /\ Abs(result.box[1] - (input.width - result.box[3])) <= 1
    /\ Abs(result.box[2] - (input.height - result.box[4])) <= 1

\* BoxWidth : BoxHeight is w : h, up to one pixel of either side.
HasRatio(w, h) ==
    LET skew == Abs(BoxWidth * h - BoxHeight * w)
    IN  skew <= w \/ skew <= h

CropAsSpecified ==
    CASE result.action = "crop_square" ->
           /\ BoxWidth = Min(input.width, input.height)
           /\ BoxHeight = Min(input.width, input.height)
           /\ IsCentered
      [] result.action = "crop_portrait" -> HasRatio(9, 16) /\ IsCentered
      [] result.action = "crop_landscape" -> HasRatio(16, 9) /\ IsCentered
      [] OTHER -> TRUE

BotCropped == Cropped /\ result.processor = "AIImageProcessor"

C17_CropStyles == BotCropped => CropAsSpecified

\* What holds: the square and the landscape crop are as specified.
C17_SquareAndLandscape ==
    (BotCropped /\ result.action # "crop_portrait") => CropAsSpecified

\* crop_portrait of a 1280 x 720 photo: the middle 540 x 720 (3:4), where
\* 9:16 is 405 x 720.
C17_PortraitIsThreeToFour ==
    /\ BotCropped
    /\ result.action = "crop_portrait"
    /\ input.width = 1280 /\ input.height = 720
    /\ result.box = <<370, 0, 910, 720>>
    /\ result.ok
    /\ ~HasRatio(9, 16)

(***************************************************************************)
(* convert_format: the mode and the file format that are written.          *)
(***************************************************************************)
\* The strings the routers pass (format_map of bot_simple.py, the stripped
\* token in TelegramBot), and two that name no supported format.
Formats ==
    {"jpeg", "jpg", "JPEG", "png", "PNG", "webp", "WebP", "gif", "xyz"}

\* target_format.lower()
Lower(target_format) ==
    CASE target_format = "JPEG" -> "jpeg"
      [] target_format = "PNG" -> "png"
      [] target_format = "WebP" -> "webp"
      [] OTHER -> target_format

AlphaModes == {"RGBA", "LA", "P"}

\* What save wrote: the file format and the mode of the image in the file;
\* ok is FALSE when the method raised and nothing was written.
Saved(format, mode) == [ok |-> TRUE, format |-> format, mode |-> mode]
NotSaved == [ok |-> FALSE, format |-> "none", mode |-> "none"]

\* Pillow's writers: the JPEG writer raises OSError for a mode with alpha
\* or a palette; the WebP writer converts to RGBA or RGB; the GIF writer
\* to a palette or to L.
Image_save(mode, format) ==
    CASE format = "JPEG" ->
           IF mode \in {"RGB", "L"} THEN Saved("JPEG", mode) ELSE NotSaved
      [] format = "PNG" -> Saved("PNG", mode)
      [] format = "WEBP" ->
           Saved("WEBP", IF mode \in AlphaModes THEN "RGBA" ELSE "RGB")
      [] format = "GIF" ->
           Saved("GIF", IF mode \in {"L", "LA"} THEN "L" ELSE "P")
      [] OTHER -> NotSaved

\* save without a format argument: Pillow takes it from the extension and
\* raises ValueError for one it does not know.
Image_save_by_extension(mode, extension) ==
    CASE extension \in {"jpeg", "jpg"} -> Image_save(mode, "JPEG")
      [] extension = "png" -> Image_save(mode, "PNG")
      [] extension = "webp" -> Image_save(mode, "WEBP")
      [] extension = "gif" -> Image_save(mode, "GIF")
      [] OTHER -> NotSaved

\* ai_apis.py
AIImageProcessor_convert_format_saved(mode, target_format) ==
    CASE Lower(target_format) \in {"jpg", "jpeg"} ->
           Image_save(IF mode \in {"RGBA", "P"} THEN "RGB" ELSE mode, "JPEG")
      [] Lower(target_format) = "png" ->
           Image_save(IF mode \notin {"RGBA", "RGB"} THEN "RGBA" ELSE mode,
                      "PNG")
      [] Lower(target_format) = "webp" -> Image_save(mode, "WEBP")
      [] OTHER -> NotSaved

\* image_processor.py
SimpleImageProcessor_convert_format_saved(mode, format) ==
    CASE Lower(format) \in {"jpeg", "jpg"} ->
           Image_save(IF mode \in {"RGBA", "LA", "P"} THEN "RGB" ELSE mode,
                      "JPEG")
      [] Lower(format) = "png" -> Image_save(mode, "PNG")
      [] Lower(format) = "webp" -> Image_save(mode, "WEBP")
      [] OTHER -> Image_save_by_extension(mode, Lower(format))

\* deepseek_python_20251015_fc208f.py: _save_image
ImageProcessor_save_image(mode, extension) ==
    Image_save_by_extension(
        IF extension \in {"jpg", "jpeg"} /\ mode \in {"RGBA", "LA", "P"}
        THEN "RGB" ELSE mode,
        extension)

\* deepseek_python_20251015_fc208f.py
ImageProcessor_convert_format_saved(mode, target_format) ==
    IF Lower(target_format) \notin supported_formats
    THEN NotSaved
    ELSE ImageProcessor_save_image(mode, Lower(target_format))

convert_format_saved(processor, mode, target_format) ==
    CASE processor = "AIImageProcessor" ->
           AIImageProcessor_convert_format_saved(mode, target_format)
      [] processor = "SimpleImageProcessor" ->
           SimpleImageProcessor_convert_format_saved(mode, target_format)
      [] processor = "ImageProcessor" ->
           ImageProcessor_convert_format_saved(mode, target_format)

\* convert_format(path, target_format) on the image.
Convert(processor, target_format) ==
    /\ input.kind = "image"
    /\ result = NoResult
    /\ result' = [op |-> "convert", processor |-> processor,
                  target_format |-> target_format,
                  saved |-> convert_format_saved(processor, input.mode,
                                                target_format)]
    /\ UNCHANGED <<router_vars, input, out_vars, shown, app_vars>>

(***************************************************************************)
(* C18.  convert to jpeg succeeds on an image of any mode that carries an  *)
(* alpha channel or transparency (RGBA, LA, palette) and always produces   *)
(* an output without an alpha channel.                                     *)
(* AIImageProcessor flattens RGBA and P only: an LA image reaches the JPEG *)
(* writer as it is, and the writer raises.                                 *)
(***************************************************************************)
Converted == result.op = "convert"

ToJpeg == Converted /\ Lower(result.target_format) \in {"jpeg", "jpg"}

C18_JpegWithoutAlpha ==
    (ToJpeg /\ input.mode \in AlphaModes) =>
        /\ result.saved.ok
        /\ result.saved.format = "JPEG"
        /\ result.saved.mode \notin AlphaModes

\* What holds: a jpeg that is written has no alpha channel, and RGBA and
\* palette images are always written.
C18_JpegWrittenWithoutAlpha ==
    ToJpeg =>
        /\ result.saved.ok =>
              /\ result.saved.format = "JPEG"
              /\ result.saved.mode \notin AlphaModes
        /\ input.mode \in {"RGBA", "P"} => result.saved.ok

\* AIImageProcessor.convert_format(path, "JPEG") on an LA image raised.
C18_GreyAlphaNotConverted ==
    /\ ToJpeg
    /\ result.processor = "AIImageProcessor"
    /\ result.target_format = "JPEG"
    /\ input.mode = "LA"
    /\ ~result.saved.ok

(***************************************************************************)
(* C19.  convert called with a format string outside {jpeg, png, webp}     *)
(* fails with an unsupported-format error and returns no output path; it   *)
(* never writes a file in some default format instead.                     *)
(* (jpg is taken as a spelling of jpeg, and case is ignored, as in all     *)
(* three implementations.)  SimpleImageProcessor has no such error: its    *)
(* else branch saves under the extension it was given.                     *)
(***************************************************************************)
Unsupported(target_format) ==
    Lower(target_format) \notin {"jpeg", "jpg", "png", "webp"}

C19_UnsupportedFormatFails ==
    (Converted /\ Unsupported(result.target_format)) =>
        /\ ~result.saved.ok
        /\ result.saved.format = "none"

\* What holds: AIImageProcessor and ImageProcessor raise and write nothing.
C19_UnsupportedFormatRaises ==
    (Converted /\ Unsupported(result.target_format)
       /\ result.processor # "SimpleImageProcessor") =>
        /\ ~result.saved.ok
        /\ result.saved.format = "none"

\* SimpleImageProcessor.convert_format(path, "gif") wrote a GIF file.
C19_GifWritten ==
    /\ Converted
    /\ result.processor = "SimpleImageProcessor"
    /\ result.target_format = "gif"
    /\ input.mode = "RGB"
    /\ result.saved.ok
    /\ result.saved.format = "GIF"

(***************************************************************************)
(* The photo message: message["photo"] lists the resolution variants of    *)
(* one photo.  A variant's file_id is its position in the list.            *)
(***************************************************************************)
MaxVariants == 3

\* (width, height) of a variant; two of them have the same area.
VariantSizes == { <<90, 67>>, <<320, 240>>, <<240, 320>>, <<1280, 960>> }

PhotoMessages ==
    [kind : {"photo"},
     photo : UNION { [1..n -> VariantSizes] : n \in 1..MaxVariants }]

\* p["width"] * p["height"]
Area(p) == p[1] * p[2]

\* max(photos, key=...): the first of the variants of the greatest area.
largest_photo(photos) ==
    CHOOSE i \in DOMAIN photos :
        /\ \A j \in DOMAIN photos : Area(photos[j]) <= Area(photos[i])
        /\ \A j \in 1..(i - 1) : Area(photos[j]) < Area(photos[i])

\* bot_simple.py: handle_photo
SimpleTelegramBot_handle_photo_file_id(photos) == largest_photo(photos)

\* webhook_server.py: handle_photo_message
webhook_handle_photo_message_file_id(photos) == largest_photo(photos)

\* deepseek_python_20251015_f33cc7.py: update.message.photo[-1]
TelegramBot_handle_photo_file_id(photos) == Len(photos)

handle_photo_file_id(router, photos) ==
    CASE router = "bot_simple" ->
           SimpleTelegramBot_handle_photo_file_id(photos)
      [] router = "webhook_server" ->
           webhook_handle_photo_message_file_id(photos)
      [] router = "TelegramBot" -> TelegramBot_handle_photo_file_id(photos)

\* The router picks the variant it will download and store.
SelectPhoto(router) ==
    /\ input.kind = "photo"
    /\ result = NoResult
    /\ result' = [op |-> "select", router |-> router,
                  file_id |-> handle_photo_file_id(router, input.photo)]
    /\ UNCHANGED <<router_vars, input, out_vars, shown, app_vars>>

(***************************************************************************)
(* C20.  On a photo upload carrying several resolution variants, the       *)
(* variant downloaded and stored for the session is one with the maximum   *)
(* width x height among all variants, whatever order the variants arrive   *)
(* in.                                                                     *)
(* TelegramBot takes the last variant of the list, whatever its size.      *)
(***************************************************************************)
Selected == result.op = "select"

IsLargest(i) ==
    \A j \in DOMAIN input.photo :
        Area(input.photo[j]) <= Area(input.photo[i])

C20_LargestVariantSelected == Selected => IsLargest(result.file_id)

\* What holds: the two routers that compare areas pick a largest variant
\* in every order, TelegramBot when the largest variant comes last.
C20_LargestVariantSelectedByArea ==
    (Selected /\ (result.router # "TelegramBot"
                    \/ IsLargest(Len(input.photo)))) =>
        IsLargest(result.file_id)

\* TelegramBot was sent the large variant first and the thumbnail last, and
\* chose the thumbnail.
C20_ThumbnailSelected ==
    /\ Selected
    /\ result.router = "TelegramBot"
    /\ Len(input.photo) >= 2
    /\ input.photo[1] = <<1280, 960>>
    /\ input.photo[Len(input.photo)] = <<90, 67>>
    /\ result.file_id = Len(input.photo)
    /\ ~IsLargest(result.file_id)

(***************************************************************************)
(* The specification of the functions: one of them is applied to an image *)
(* or to a photo message.                                                  *)
(***************************************************************************)
OpsInit ==
    /\ RouterIdle
    /\ OutIdle
    /\ NoMenu
    /\ AppIdle
    /\ input \in Images \cup PhotoMessages
    /\ result = NoResult

OpsNext ==
    \/ \E processor \in Processors, box \in TargetBoxes :
          Resize(processor, box)
    \/ \E processor \in {"AIImageProcessor", "SimpleImageProcessor"},
          action \in CropTokens :
          Crop(processor, action)
    \/ \E processor \in Processors, target_format \in Formats :
          Convert(processor, target_format)
    \/ \E router \in Bots : SelectPhoto(router)

OpsSpec == OpsInit /\ [][OpsNext]_vars

(***************************************************************************)
(* The files written under processed/.  AIImageProcessor names a file by   *)
(* a prefix, the second of the clock and the first eight digits of a       *)
(* uuid4, taken here as never drawn twice; ImageProcessor and              *)
(* SimpleImageProcessor name it by the input file and the suffix of the    *)
(* operation alone.                                                        *)
(***************************************************************************)
MaxOps == 2
MaxClock == 1

\* temp_{user_id}_{file_id}.jpg of two uploads
InputPaths == {"uploads/temp_1_a.jpg", "uploads/temp_2_b.jpg"}
Suffixes == {"resized", "cropped_square"}
\* extension=None keeps the extension of the input file
NoExtension == "None"
Extensions == {NoExtension, "png"}

\* _generate_filename(prefix, extension) at the second `timestamp` with the
\* uuid4 `unique_id`
AIImageProcessor_generate_filename_at(prefix, extension, timestamp, unique_id) ==
    <<"processed", prefix, timestamp, unique_id,
      IF extension = NoExtension THEN "jpg" ELSE extension>>

\* str(uuid.uuid4())[:8]: a value no earlier call returned
uuid4 ==
    { id \in 0..MaxOps :
        \A k \in DOMAIN processed :
            processed[k].processor = "AIImageProcessor"
                => processed[k].unique_id # id }

NoId == "none"

Written(processor, input_path, suffix, extension, unique_id, path) ==
    [processor |-> processor, input_path |-> input_path, suffix |-> suffix,
     extension |-> extension, unique_id |-> unique_id, at |-> now,
     path |-> path]

\* One operation of a processor writes its output file.
Operate(processor, input_path, suffix, extension) ==
    /\ Len(processed) < MaxOps
    /\ \E unique_id \in uuid4 :
         processed' = Append(processed,
            IF processor = "AIImageProcessor"
            THEN Written(processor, input_path, suffix, extension, unique_id,
                         AIImageProcessor_generate_filename_at(
                             suffix, extension, now, unique_id))
            ELSE Written(processor, input_path, suffix, extension, NoId,
                         ImageProcessor_get_output_path(
                             input_path, suffix, extension)))
    /\ UNCHANGED <<router_vars, ops_vars, now, shown, app_vars>>

\* A second of the clock passes.
Tick ==
    /\ now < MaxClock
    /\ now' = now + 1
    /\ UNCHANGED <<router_vars, ops_vars, processed, shown, app_vars>>

OutputInit ==
    /\ RouterIdle
    /\ OpsIdle
    /\ OutIdle
    /\ NoMenu
    /\ AppIdle

OutputNext ==
    \/ \E processor \in Processors, input_path \in InputPaths,
          suffix \in Suffixes, extension \in Extensions :
         Operate(processor, input_path, suffix, extension)
    \/ Tick

OutputSpec == OutputInit /\ [][OutputNext]_vars

\* C23: every operation writes its output to a filename that no other
\* operation, concurrent or earlier, writes to, also when the same action
\* runs twice on the same photo.
C23_OutputNamesDistinct ==
    \A i, j \in DOMAIN processed :
        i # j => processed[i].path # processed[j].path

\* What holds instead: only AIImageProcessor's names are its own; the two
\* other processors write one file for one input file, suffix and
\* extension, however often the operation runs.
C23_SameNameForSameInput ==
    \A i, j \in DOMAIN processed :
        i # j =>
          ( processed[i].path = processed[j].path
            <=> /\ processed[i].processor # "AIImageProcessor"
                /\ processed[j].processor # "AIImageProcessor"
                /\ processed[i].input_path = processed[j].input_path
                /\ processed[i].suffix = processed[j].suffix
                /\ processed[i].extension = processed[j].extension )

\* ImageProcessor crops the same photo twice, a second apart, and writes the
\* same file twice.
C23_SameFileWrittenTwice ==
    \E i, j \in DOMAIN processed :
        /\ i < j
        /\ processed[i].processor = "ImageProcessor"
        /\ processed[j].processor = "ImageProcessor"
        /\ processed[i].input_path = processed[j].input_path
        /\ processed[i].suffix = "cropped_square"
        /\ processed[j].suffix = "cropped_square"
        /\ processed[i].at < processed[j].at
        /\ processed[i].path = processed[j].path

(***************************************************************************)
(* The menu on screen.  MenuSpec runs the routers of Spec and follows, in  *)
(* the history variable `shown`, the inline keyboard of the menu message   *)
(* each user sees: a delivered message with a keyboard puts it on screen,  *)
(* a delivered edit replaces it (without reply_markup: removes it).  The   *)
(* client may press any button of any earlier message, so a press is not   *)
(* bound to the keyboard shown last.                                       *)
(***************************************************************************)
MenuEvents(tr) ==
    { k \in DOMAIN tr :
        /\ tr[k].ok
        /\ \/ tr[k].kind = "editMessageText"
           \/ tr[k].kind = "sendMessage" /\ tr[k].kb # NoKb }

\* The keyboard the user sees after the run tr of a handler.
ShownAfter(user_id, tr) ==
    IF MenuEvents(tr) = {}
    THEN shown[user_id]
    ELSE LET k == CHOOSE i \in MenuEvents(tr) : \A j \in MenuEvents(tr) : j <= i
         IN  tr[k].kb

Shows(user_id, out) ==
    shown' = [shown EXCEPT ![user_id] = ShownAfter(user_id, out.tr)]

MenuInit ==
    /\ bot \in Bots
    /\ api_keys = {}
    /\ user_photos = [u \in Users |-> NoPhoto]
    /\ files = {}
    /\ next_id = 0
    /\ last = NoUpdate
    /\ trace = <<>>
    /\ OpsIdle
    /\ OutIdle
    /\ NoMenu
    /\ AppIdle

\* A photo message.
Upload(user_id) ==
    /\ Idle
    /\ next_id < MaxUploads
    /\ \E out \in handle_photo(user_id, next_id + 1) :
           /\ Effects(Update("photo", user_id, ""), out)
           /\ Shows(user_id, out)

\* A button press.
Press(user_id, action) ==
    /\ Idle
    /\ \E out \in handle_callback(user_id, action) :
           /\ Effects(Update("callback", user_id, action), out)
           /\ Shows(user_id, out)

MenuNext ==
    \/ \E user_id \in Users : Upload(user_id)
    \/ \E user_id \in Users, action \in Tokens : Press(user_id, action)
    \/ \E path \in files : ExpireFile(path)
    \/ NextUpdate

MenuSpec == MenuInit /\ [][MenuNext]_vars

\* The operation a router runs for a token: the processor method and its
\* parameter, or NoCall for a token that is no leaf action of the router.
NoCall == <<>>

Operation(b, action) ==
    CASE b = "webhook_server" ->
           IF action = "remove_bg"
           THEN <<"remove_background_removebg", NoArg>>
           ELSE IF action \in DOMAIN webhook_size_map
           THEN <<"resize_image", webhook_size_map[action]>>
           ELSE NoCall
      [] b = "bot_simple" ->
           IF action \in DOMAIN size_map
           THEN <<"resize_image", size_map[action]>>
           ELSE IF action \in CropTokens
           THEN <<"smart_crop", <<StripPrefix(action)>> >>
           ELSE IF action = "remove_bg"
           THEN <<"remove_background_removebg", NoArg>>
           ELSE IF action = "generate_bg"
           THEN <<"generate_background_photoroom", NoArg>>
           ELSE IF action \in DOMAIN format_map
           THEN <<"convert_format", <<format_map[action]>> >>
           ELSE IF action \in DOMAIN resolution_map
           THEN <<"enhance_quality_ai", <<resolution_map[action]>> >>
           ELSE NoCall
      [] b = "TelegramBot" ->
           IF action \in DOMAIN size_map
           THEN <<"resize_image", size_map[action]>>
           ELSE IF action \in CropTokens
           THEN <<"smart_crop", <<StripPrefix(action)>> >>
           ELSE IF action = "remove_bg"
           THEN <<"remove_background", NoArg>>
           ELSE IF action = "generate_bg"
           THEN <<"generate_background", NoArg>>
           ELSE IF action = "enhance"
           THEN <<"enhance_quality", NoArg>>
           ELSE IF action \in ConvertTokens
           THEN <<"convert_format", <<StripPrefix(action)>> >>
           ELSE NoCall

\* The calls of processor methods by the router during the run.
Calls == { <<trace[k].text, trace[k].arg, trace[k].path>> : k \in Ops }

\* The router can work on the stored photo: bot_simple does not look at the
\* file, the two others want it in uploads/.
Usable == HadPhoto /\ (bot = "bot_simple" \/ FileBefore)

\* The keyboard the pressing user had on screen.
ShownBefore == last.shown_before[last.user]

\* C27: the router's response to a button press is a function of the action
\* token and the pressing user's stored photo only, not of which menu was
\* shown last: whatever keyboard is on screen, the operation called is the
\* one of the token, on the stored photo, and a leaf token such as resize_4k
\* is executed even if the resize submenu was never opened.
C27_ResponseIndependentOfMenu ==
    Callback =>
      /\ \A c \in Calls :
            /\ Operation(bot, last.data) # NoCall
            /\ c = Operation(bot, last.data) \o <<StoredBefore>>
      /\ (Usable /\ AllDelivered /\ Operation(bot, last.data) # NoCall)
            => Calls = {Operation(bot, last.data) \o <<StoredBefore>>}

\* resize_4k was pressed while the main menu was on screen, the resize
\* submenu not opened, and the photo was resized to 3840x2160.
C27_LeafWithoutSubmenu ==
    /\ Callback
    /\ last.data = "resize_4k"
    /\ ShownBefore = MainKb
    /\ "resize_4k" \notin Buttons(ShownBefore)
    /\ Calls = {<<"resize_image", <<3840, 2160>>, StoredBefore>>}
    /\ AllDelivered

(***************************************************************************)
(* The application around the bot.  Under polling delivery app.py starts   *)
(* SimpleTelegramBot from threads that run start_bot (one at import when   *)
(* the token is set, one for each accepted POST /api/bot/start); every     *)
(* accepted start() runs poll_updates in a thread of its own.  Telegram    *)
(* keeps an update until getUpdates is called with a higher offset.  Under *)
(* webhook delivery webhook_server.py handles each POST inside the request *)
(* that carries it; nothing in the server orders the requests.             *)
(* Every step below is one statement (or one request) of a thread; the     *)
(* threads interleave freely.                                              *)
(***************************************************************************)
MaxStarts == 2
MaxUpdates == 2

Max(a, b) == IF a >= b THEN a ELSE b

\* SimpleTelegramBot.__init__
SimpleTelegramBot_init == [running |-> FALSE, offset |-> 0]

\* `not self.token or self.token == "your-bot-token-here"`, the token being
\* os.getenv("TELEGRAM_BOT_TOKEN", "your-bot-token-here")
TokenRefused == env_token # "valid"

\* A polling loop that has not returned.
Active(l) == loops[l].pc # "exited"
ActiveLoops == { l \in DOMAIN loops : Active(l) }

\* The user an update comes from.
UserOf(update) == arrived[update]

\* POST /api/bot/start: check bot_status["running"], then start a thread
\* that runs start_bot.
start_bot_api ==
    /\ delivery = "polling"
    /\ ~bot_status
    /\ Len(starts) < MaxStarts
    /\ starts' = Append(starts, [pc |-> "construct", bot |-> 0])
    /\ UNCHANGED <<router_vars, ops_vars, out_vars, shown, env_token, delivery,
                   bot_status, telegram_bot, instances, loops, arrived,
                   confirmed, handling, log>>

\* POST /api/bot/stop
stop_bot_api ==
    /\ delivery = "polling"
    /\ telegram_bot # 0
    /\ bot_status
    /\ instances' = [instances EXCEPT ![telegram_bot].running = FALSE]
    /\ bot_status' = FALSE
    /\ UNCHANGED <<router_vars, ops_vars, out_vars, shown, env_token, delivery,
                   telegram_bot, starts, loops, arrived, confirmed, handling,
                   log>>

\* start_bot: telegram_bot = SimpleTelegramBot(bot_token, ...)
start_bot_construct(t) ==
    /\ starts[t].pc = "construct"
    /\ instances' = Append(instances, SimpleTelegramBot_init)
    /\ telegram_bot' = Len(instances) + 1
    /\ starts' = [starts EXCEPT ![t].pc = "start"]
    /\ UNCHANGED <<router_vars, ops_vars, out_vars, shown, env_token, delivery,
                   bot_status, loops, arrived, confirmed, handling, log>>

\* start_bot: telegram_bot.start(), on the instance the global names now.
\* start() returns at once on a refused token; otherwise it sets both
\* running flags and goes on to deleteWebhook.
SimpleTelegramBot_start(t) ==
    /\ starts[t].pc = "start"
    /\ IF TokenRefused
       THEN /\ starts' = [starts EXCEPT ![t].pc = "set"]
            /\ UNCHANGED <<instances, bot_status>>
       ELSE /\ instances' = [instances EXCEPT ![telegram_bot].running = TRUE]
            /\ bot_status' = TRUE
            /\ starts' =
                 [starts EXCEPT ![t] = [pc |-> "spawn", bot |-> telegram_bot]]
    /\ UNCHANGED <<router_vars, ops_vars, out_vars, shown, env_token, delivery,
                   telegram_bot, loops, arrived, confirmed, handling, log>>

\* start(): bot_thread.start() runs poll_updates in a new thread; when the
\* thread cannot be started start() raises into start_bot's except branch.
SimpleTelegramBot_start_thread(t) ==
    /\ starts[t].pc = "spawn"
    /\ \/ /\ loops' = Append(loops,
                 [bot |-> starts[t].bot, pc |-> "check", batch |-> <<>>])
          /\ starts' = [starts EXCEPT ![t].pc = "set"]
          /\ UNCHANGED bot_status
       \/ /\ bot_status' = FALSE
          /\ starts' = [starts EXCEPT ![t].pc = "done"]
          /\ UNCHANGED loops
    /\ UNCHANGED <<router_vars, ops_vars, out_vars, shown, env_token, delivery,
                   telegram_bot, instances, arrived, confirmed, handling, log>>

\* start_bot: bot_status["running"] = True after start() has returned
start_bot_running(t) ==
    /\ starts[t].pc = "set"
    /\ bot_status' = TRUE
    /\ starts' = [starts EXCEPT ![t].pc = "done"]
    /\ UNCHANGED <<router_vars, ops_vars, out_vars, shown, env_token, delivery,
                   telegram_bot, instances, loops, arrived, confirmed,
                   handling, log>>

\* poll_updates: while self.running
poll_updates_while(l) ==
    /\ loops[l].pc = "check"
    /\ loops' = [loops EXCEPT ![l].pc =
                    IF instances[loops[l].bot].running THEN "poll"
                    ELSE "exited"]
    /\ UNCHANGED <<router_vars, ops_vars, out_vars, shown, env_token, delivery,
                   bot_status, telegram_bot, instances, starts, arrived,
                   confirmed, handling, log>>

\* What Telegram answers to getUpdates(offset): the updates it holds from
\* the offset on, those below the offset being confirmed and dropped.
getUpdates(offset) ==
    LET from == Max(Max(offset, confirmed), 1)
    IN  [k \in 1..(Len(arrived) + 1 - from) |-> from + k - 1]

\* poll_updates: updates = self.get_updates(); a failed request gives [].
\* After an empty batch the loop sleeps and checks self.running again.
get_updates(l) ==
    /\ loops[l].pc = "poll"
    /\ LET offset == instances[loops[l].bot].offset
       IN  \/ /\ confirmed' = Max(confirmed, offset)
              /\ loops' = [loops EXCEPT ![l] =
                    [bot |-> loops[l].bot,
                     pc |-> IF getUpdates(offset) = <<>> THEN "check"
                            ELSE "handle",
                     batch |-> getUpdates(offset)]]
           \/ /\ loops' = [loops EXCEPT ![l].pc = "check"]
              /\ UNCHANGED confirmed
    /\ UNCHANGED <<router_vars, ops_vars, out_vars, shown, env_token, delivery,
                   bot_status, telegram_bot, instances, starts, arrived,
                   handling, log>>

\* poll_updates: await self.process_update(update) begins
process_update_begin(l) ==
    /\ loops[l].pc = "handle"
    /\ handling' = handling \cup {[update |-> Head(loops[l].batch), by |-> l]}
    /\ loops' = [loops EXCEPT ![l].pc = "handling"]
    /\ UNCHANGED <<router_vars, ops_vars, out_vars, shown, env_token, delivery,
                   bot_status, telegram_bot, instances, starts, arrived,
                   confirmed, log>>

\* process_update letting the failure of a handler out: the loop's except
\* branch drops the rest of the batch and leaves the offset where it was.
process_update_end_retrying(l) ==
    /\ loops[l].pc = "handling"
    /\ LET update == Head(loops[l].batch)
       IN  \E ok \in BOOLEAN :
             /\ log' = Append(log,
                    [update |-> update, by |-> l, ok |-> ok,
                     alone |-> ActiveLoops = {l}])
             /\ handling' = handling \ {[update |-> update, by |-> l]}
             /\ instances' =
                  IF ok
                  THEN [instances EXCEPT ![loops[l].bot].offset = update + 1]
                  ELSE instances
             /\ loops' = [loops EXCEPT ![l] =
                   [bot |-> loops[l].bot,
                    pc |-> IF ok /\ Tail(loops[l].batch) # <<>> THEN "handle"
                           ELSE "check",
                    batch |-> IF ok THEN Tail(loops[l].batch) ELSE <<>>]]
    /\ UNCHANGED <<router_vars, ops_vars, out_vars, shown, env_token, delivery,
                   bot_status, telegram_bot, starts, arrived, confirmed>>

\* process_update returns, whether its handler failed (the exception is
\* caught and logged) or not; then self.offset = update['update_id'] + 1.
process_update_end(l) ==
    /\ loops[l].pc = "handling"
    /\ LET update == Head(loops[l].batch)
       IN  /\ \E ok \in BOOLEAN :
                log' = Append(log,
                    [update |-> update, by |-> l, ok |-> ok,
                     alone |-> ActiveLoops = {l}])
           /\ handling' = handling \ {[update |-> update, by |-> l]}
           /\ instances' =
                [instances EXCEPT ![loops[l].bot].offset = update + 1]
           /\ loops' = [loops EXCEPT ![l] =
                 [bot |-> loops[l].bot,
                  pc |-> IF Tail(loops[l].batch) = <<>> THEN "check"
                         ELSE "handle",
                  batch |-> Tail(loops[l].batch)]]
    /\ UNCHANGED <<router_vars, ops_vars, out_vars, shown, env_token, delivery,
                   bot_status, telegram_bot, starts, arrived, confirmed>>

\* A user sends a message or presses a button: Telegram has a new update.
Arrive(user_id) ==
    /\ Len(arrived) < MaxUpdates
    /\ arrived' = Append(arrived, user_id)
    /\ UNCHANGED <<router_vars, ops_vars, out_vars, shown, env_token, delivery,
                   bot_status, telegram_bot, instances, starts, loops,
                   confirmed, handling, log>>

\* The updates Telegram has posted to the webhook.
Posted == { h.update : h \in handling } \cup { log[k].update : k \in DOMAIN log }

\* webhook(): a request with the next update comes in and is handled in
\* the request.
webhook_begin ==
    /\ delivery = "webhook"
    /\ Cardinality(Posted) < Len(arrived)
    /\ handling' =
          handling \cup {[update |-> Cardinality(Posted) + 1, by |-> 0]}
    /\ UNCHANGED <<router_vars, ops_vars, out_vars, shown, env_token, delivery,
                   bot_status, telegram_bot, instances, starts, loops, arrived,
                   confirmed, log>>

\* webhook(): the handler has returned (or raised into the except branch)
\* and the request is answered.
webhook_end(h) ==
    /\ delivery = "webhook"
    /\ h.by = 0
    /\ \E ok \in BOOLEAN :
         log' = Append(log,
             [update |-> h.update, by |-> 0, ok |-> ok,
              alone |-> handling = {h}])
    /\ handling' = handling \ {h}
    /\ UNCHANGED <<router_vars, ops_vars, out_vars, shown, env_token, delivery,
                   bot_status, telegram_bot, instances, starts, loops, arrived,
                   confirmed>>

\* After the import of app.py (the auto-start thread is there when
\* TELEGRAM_BOT_TOKEN is set), or after webhook_server.py has set its
\* webhook.
AppInit ==
    /\ RouterIdle
    /\ OpsIdle
    /\ OutIdle
    /\ NoMenu
    /\ delivery \in {"polling", "webhook"}
    /\ env_token \in {"unset", "placeholder", "valid"}
    /\ delivery = "webhook" => env_token = "valid"
    /\ bot_status = FALSE
    /\ telegram_bot = 0
    /\ instances = <<>>
    /\ starts = IF delivery = "polling" /\ env_token # "unset"
                THEN <<[pc |-> "construct", bot |-> 0]>>
                ELSE <<>>
    /\ loops = <<>>
    /\ arrived = <<>>
    /\ confirmed = 0
    /\ handling = {}
    /\ log = <<>>

AppNext ==
    \/ start_bot_api
    \/ stop_bot_api
    \/ \E t \in DOMAIN starts : start_bot_construct(t)
    \/ \E t \in DOMAIN starts : SimpleTelegramBot_start(t)
    \/ \E t \in DOMAIN starts : SimpleTelegramBot_start_thread(t)
    \/ \E t \in DOMAIN starts : start_bot_running(t)
    \/ \E l \in DOMAIN loops : poll_updates_while(l)
    \/ \E l \in DOMAIN loops : get_updates(l)
    \/ \E l \in DOMAIN loops : process_update_begin(l)
    \/ \E l \in DOMAIN loops : process_update_end(l)
    \/ \E user_id \in Users : Arrive(user_id)
    \/ webhook_begin
    \/ \E h \in handling : webhook_end(h)

AppSpec == AppInit /\ [][AppNext]_vars

\* C29: at most one polling loop consumes updates at any time: repeated or
\* concurrent calls to the start endpoint, together with the auto-start at
\* import, never leave two bot instances polling for updates at once.
C29_SinglePollingLoop == Cardinality(ActiveLoops) <= 1

\* What holds instead: one thread running start_bot starts at most one loop.
C29_OneLoopPerStart ==
    /\ Len(loops) <= Len(starts)
    /\ Len(starts) <= 1 => Cardinality(ActiveLoops) <= 1

\* The start endpoint was called while the auto-start thread had not yet
\* set bot_status["running"]: both threads are through, two instances are
\* running and polled, and stop reaches only the one the global names.
C29_TwoInstancesPolling ==
    /\ env_token = "valid"
    /\ Len(starts) = 2
    /\ \A t \in DOMAIN starts : starts[t].pc = "done"
    /\ bot_status
    /\ \E l1, l2 \in ActiveLoops :
          /\ loops[l1].bot # loops[l2].bot
          /\ instances[loops[l1].bot].running
          /\ instances[loops[l2].bot].running
          /\ loops[l1].bot # telegram_bot
          /\ loops[l1].pc = "poll"
          /\ loops[l2].pc = "poll"

\* C30: bot_status["running"] is true only while a polling loop of the bot
\* is active (or is just being started by an accepted start): a start that
\* is refused for a missing or placeholder token, or that fails, leaves it
\* false.
C30_RunningOnlyWhilePolling ==
    bot_status =>
        \/ ActiveLoops # {}
        \/ \E t \in DOMAIN starts : starts[t].pc = "spawn"

\* What holds instead: a refused token starts no loop and sets no
\* instance's own flag; only bot_status["running"] is raised.
C30_RefusedStartsNothing ==
    TokenRefused =>
        /\ loops = <<>>
        /\ \A b \in DOMAIN instances : ~instances[b].running

\* TELEGRAM_BOT_TOKEN is missing or the placeholder: start() has returned
\* without starting anything, start_bot is through, and bot_status["running"]
\* is true with no polling loop.
C30_RunningAfterRefusedStart ==
    /\ TokenRefused
    /\ starts # <<>>
    /\ \A t \in DOMAIN starts : starts[t].pc = "done"
    /\ telegram_bot # 0
    /\ ~instances[telegram_bot].running
    /\ loops = <<>>
    /\ bot_status

\* The updates a loop has handled, in the order of the log.
HandledBy(l) == { k \in DOMAIN log : log[k].by = l }

\* The loop shares its instance (and so self.offset) with no other loop.
OwnInstance(l) ==
    \A m \in DOMAIN loops : m # l => loops[m].bot # loops[l].bot

\* C25 as claimed: in the polling bot every update returned by getUpdates
\* is handled exactly once and in the order received, also when its handler
\* fails: a handled update, failed or not, is never fetched or processed
\* again.  This fails across a stop and a start, and with two loops.
C25_HandledExactlyOnce ==
    delivery = "polling" =>
        \A i, j \in DOMAIN log :
            i < j => log[i].update < log[j].update

\* C25, amended: a polling loop that has its bot instance to itself handles
\* the updates getUpdates gives it once each and in the order received,
\* whether their handlers fail or not, and leaves the offset past every
\* update it has handled, so that it fetches none of them again.
C25_OncePerLoop ==
    \A l \in DOMAIN loops :
        OwnInstance(l) =>
          /\ \A i, j \in HandledBy(l) :
                i < j => log[i].update < log[j].update
          /\ \A i \in HandledBy(l) :
                instances[loops[l].bot].offset > log[i].update

\* The handler of an update failed, the bot was stopped and started again:
\* the new instance polls from offset 0, Telegram has not seen the update
\* confirmed, and the update is handled a second time.
C25_HandledAgainAfterRestart ==
    \E i, j \in DOMAIN log :
        /\ i < j
        /\ log[i].update = log[j].update
        /\ ~log[i].ok
        /\ log[i].alone
        /\ log[j].alone
        /\ log[i].by # log[j].by
        /\ loops[log[i].by].pc = "exited"
        /\ loops[log[i].by].bot # loops[log[j].by].bot

\* A loop with its instance to itself has handled an update whose handler
\* failed, then the next update, and polls on from behind both.
C25_FailedUpdatePassed ==
    \E l \in DOMAIN loops :
        /\ OwnInstance(l)
        /\ instances[loops[l].bot].running
        /\ loops[l].pc = "poll"
        /\ \E i, j \in HandledBy(l) :
              /\ i < j
              /\ ~log[i].ok
              /\ log[j].update = log[i].update + 1
              /\ instances[loops[l].bot].offset = log[j].update + 1

\* C21: no two operations for the same user's session ever run
\* concurrently: the handler of one update runs to completion before the
\* handler of the next update starts, under polling and under webhook
\* delivery.
C21_HandlersSequential ==
    \A h1, h2 \in handling :
        h1 # h2 => UserOf(h1.update) # UserOf(h2.update)

\* What holds instead: one polling loop has one handler in flight.
C21_OneHandlerPerLoop ==
    /\ \A h1, h2 \in handling : (h1.by = h2.by /\ h1.by # 0) => h1 = h2
    /\ (delivery = "polling" /\ Len(loops) <= 1) => Cardinality(handling) <= 1

\* Polling: the loop of a stopped instance is still inside a handler when
\* the loop of the next start handles an update of the same user.
C21_TwoHandlersForOneUser ==
    /\ delivery = "polling"
    /\ \E h1, h2 \in handling :
          /\ h1.by # h2.by
          /\ UserOf(h1.update) = UserOf(h2.update)
          /\ ~instances[loops[h1.by].bot].running
          /\ instances[loops[h2.by].bot].running

\* Webhook: two requests of one user are being handled at once.
C21_TwoRequestsForOneUser ==
    /\ delivery = "webhook"
    /\ \E h1, h2 \in handling :
          h1.update < h2.update /\ UserOf(h1.update) = UserOf(h2.update)

====
